---------------------------- MODULE Spec2Model ----------------------------
(***************************************************************************)
(* A model of bt2magnet's utility module (utils/magnetUtils.ts, kept in   *)
(* src/unnamed/part_005): the bencode decoder and encoder, the torrent     *)
(* extractor parseBencodeBuffer, the text resolver parseInput with the     *)
(* magnet parser, and generateMagnetLink.                                  *)
(*                                                                         *)
(* Conventions.  A Uint8Array is a sequence of bytes 0..255.  A JavaScript *)
(* string is a sequence of UTF-16 code units 0..65535.  Offsets are the    *)
(* code's 0-based offsets; data[offset] of the code is data[offset + 1]    *)
(* here.  A JavaScript value of the decoded tree is a record tagged by     *)
(* "type": number (int or NaN), Uint8Array, Array, plain object.  A call   *)
(* that throws is the record Throw(message).                               *)
(***************************************************************************)
EXTENDS Integers, Sequences, FiniteSets, TLC

VARIABLES
    pc,             \* which call was made last
    data,           \* the Uint8Array given to decodeBencode or parseBencodeBuffer
    value,          \* encodeBencode's argument
    result,         \* what decodeBencode returned or threw
    bytes,          \* what encodeBencode returned
    input,          \* parseInput's argument
    torrent,        \* the TorrentInstance a parser returned, or what it threw
    customName,     \* generateMagnetLink's customName
    addTrackers,    \* generateMagnetLink's addTrackers
    customTrackers, \* generateMagnetLink's customTrackers
    magnetLink,     \* what generateMagnetLink returned; App's magnetLink
    reparsed,       \* what parseInput made of magnetLink
    loopPos,        \* decodeBencode's pos while a list or dictionary loop runs
    loopValue,      \* decodeBencode's list or dict while its loop runs
    history,        \* App's history: the state as last set
    effect,         \* history was set and useEffect(saveHistory) has not run yet
    storage,        \* localStorage's item 'bt2magnet-history'
    currentInfoHash, \* App's currentInfoHash
    error,          \* InfoHashInput's error
    isSubmitting,   \* InfoHashInput's isSubmitting
    uploadError,    \* TorrentUploader's error
    isLoading,      \* TorrentUploader's isLoading
    uploads,        \* the calls of processTorrentFile awaiting parseTorrentFile
    events          \* how many times the user has acted on the page

codecVars == <<data, value, result, bytes>>

magnetVars == <<input, torrent, customName, addTrackers, customTrackers,
                magnetLink, reparsed>>

loopVars == <<loopPos, loopValue>>

appVars == <<history, effect, storage, currentInfoHash, error, isSubmitting,
             uploadError, isLoading, uploads, events>>

vars == <<pc, codecVars, magnetVars, loopVars, appVars>>

\* The value of a variable no call has set yet.
NONE == [none |-> TRUE]

\* The variables of the decoder's loops before a loop is entered.
NoLoop == loopPos = 0 /\ loopValue = <<>>

\* The variables of the application are not in use.
NoApp ==
    /\ history = NONE /\ effect = NONE /\ storage = NONE
    /\ currentInfoHash = NONE /\ error = NONE /\ isSubmitting = NONE
    /\ uploadError = NONE /\ isLoading = NONE
    /\ uploads = NONE /\ events = 0

-----------------------------------------------------------------------------
(* Sequences *)

Min(a, b) == IF a < b THEN a ELSE b

Max(a, b) == IF a > b THEN a ELSE b

RECURSIVE Concat(_)
\* The concatenation of a sequence of sequences.
Concat(ss) == IF ss = <<>> THEN <<>> ELSE Head(ss) \o Concat(Tail(ss))

\* TypedArray.prototype.slice(start, end) / String.prototype.substring for
\* 0 <= start: end is exclusive and both are clamped to the length.
Slice(s, start, end) ==
    IF start >= Min(end, Len(s)) THEN <<>>
    ELSE SubSeq(s, start + 1, Min(end, Len(s)))

\* TypedArray.prototype.indexOf(x, from) / String.prototype.indexOf: the first
\* 0-based index >= from holding x, or -1.
IndexOf(s, x, from) ==
    LET hits == {i \in from..(Len(s) - 1) : s[i + 1] = x}
    IN  IF hits = {} THEN -1
        ELSE CHOOSE i \in hits : \A j \in hits : i <= j

\* String.prototype.startsWith
StartsWith(s, prefix) ==
    Len(s) >= Len(prefix) /\ SubSeq(s, 1, Len(prefix)) = prefix

\* The < of JavaScript strings (and of byte strings): lexicographic by unit.
SeqLess(a, b) ==
    \E i \in 1..(Len(b)) :
        /\ i <= Len(a) + 1
        /\ \A k \in 1..(i - 1) : a[k] = b[k]
        /\ (i = Len(a) + 1 \/ a[i] < b[i])

-----------------------------------------------------------------------------
(* JavaScript values and outcomes *)

Num(n) == [type |-> "number", int |-> n]

NaN == [type |-> "number", nan |-> TRUE]

Bytes(b) == [type |-> "Uint8Array", bytes |-> b]

List(items) == [type |-> "Array", items |-> items]

\* A plain object: its own string-keyed properties in creation order.
Dict(entries) == [type |-> "object", entries |-> entries]

IsInt(v) == v.type = "number" /\ "int" \in DOMAIN v

IsNaN(v) == v.type = "number" /\ "nan" \in DOMAIN v

Throw(message) == [ok |-> FALSE, error |-> message]

Return(v, offset) == [ok |-> TRUE, value |-> v, offset |-> offset]

\* An optional value: undefined (or null), or the value itself.
Undefined == <<>>

Some(x) == <<x>>

IsDefined(m) == m # <<>>

The(m) == m[1]

-----------------------------------------------------------------------------
(* UTF-8: TextDecoder and TextEncoder (WHATWG Encoding) *)

\* Continuation bytes a lead byte needs; 0 for a byte that cannot lead.
Utf8Needed(b) ==
    IF b >= 194 /\ b <= 223 THEN 1
    ELSE IF b >= 224 /\ b <= 239 THEN 2
    ELSE IF b >= 240 /\ b <= 244 THEN 3
    ELSE 0

\* Range of the first continuation byte (excludes overlongs and surrogates).
Utf8Lower(b) == IF b = 224 THEN 160 ELSE IF b = 240 THEN 144 ELSE 128

Utf8Upper(b) == IF b = 237 THEN 159 ELSE IF b = 244 THEN 143 ELSE 191

\* One step of the UTF-8 decoder at 1-based position i: the code point read
\* (U+FFFD for a malformed sequence) and the position of the next byte.  A
\* byte that breaks a sequence is not consumed.
Utf8DecodeAt(s, i) ==
    LET b == s[i]
        need == Utf8Needed(b)
        Cont(j) ==
            /\ i + j <= Len(s)
            /\ s[i + j] >= (IF j = 1 THEN Utf8Lower(b) ELSE 128)
            /\ s[i + j] <= (IF j = 1 THEN Utf8Upper(b) ELSE 191)
        bad == {j \in 1..need : ~Cont(j)}
        lead == IF need = 1 THEN b - 192 ELSE IF need = 2 THEN b - 224 ELSE b - 240
        cp1 == lead * 64 + (s[i + 1] - 128)
        cp2 == cp1 * 64 + (s[i + 2] - 128)
        cp3 == cp2 * 64 + (s[i + 3] - 128)
    IN  IF b <= 127 THEN [cp |-> b, next |-> i + 1]
        ELSE IF need = 0 THEN [cp |-> 65533, next |-> i + 1]
        ELSE IF bad # {}
             THEN [cp |-> 65533,
                   next |-> i + (CHOOSE j \in bad : \A k \in bad : j <= k)]
        ELSE [cp |-> IF need = 1 THEN cp1 ELSE IF need = 2 THEN cp2 ELSE cp3,
              next |-> i + need + 1]

\* A code point as UTF-16 code units.
CodeUnits(cp) ==
    IF cp <= 65535 THEN <<cp>>
    ELSE <<55296 + ((cp - 65536) \div 1024), 56320 + ((cp - 65536) % 1024)>>

RECURSIVE Utf8DecodeFrom(_, _)
Utf8DecodeFrom(s, i) ==
    IF i > Len(s) THEN <<>>
    ELSE LET r == Utf8DecodeAt(s, i)
         IN  CodeUnits(r.cp) \o Utf8DecodeFrom(s, r.next)

\* "UTF-8 decode without BOM": malformed input becomes U+FFFD, never an error.
Utf8DecodeWithoutBOM(s) == Utf8DecodeFrom(s, 1)

\* new TextDecoder().decode(bytes): UTF-8, not fatal, ignoreBOM false, so a
\* leading byte order mark EF BB BF is dropped from the output.
TextDecoderDecode(s) ==
    IF Len(s) >= 3 /\ SubSeq(s, 1, 3) = <<239, 187, 191>>
    THEN Utf8DecodeFrom(s, 4)
    ELSE Utf8DecodeFrom(s, 1)

\* A code point's UTF-8 bytes.
Utf8Bytes(cp) ==
    IF cp <= 127 THEN <<cp>>
    ELSE IF cp <= 2047 THEN <<192 + (cp \div 64), 128 + (cp % 64)>>
    ELSE IF cp <= 65535
         THEN <<224 + (cp \div 4096), 128 + ((cp \div 64) % 64), 128 + (cp % 64)>>
    ELSE <<240 + (cp \div 262144), 128 + ((cp \div 4096) % 64),
           128 + ((cp \div 64) % 64), 128 + (cp % 64)>>

IsHighSurrogate(u) == u >= 55296 /\ u <= 56319

IsLowSurrogate(u) == u >= 56320 /\ u <= 57343

\* The code point at 1-based position i of a string and the units it takes;
\* lone is TRUE for an unpaired surrogate.
CodePointAt(s, i) ==
    IF IsHighSurrogate(s[i]) /\ i < Len(s) /\ IsLowSurrogate(s[i + 1])
    THEN [cp |-> 65536 + (s[i] - 55296) * 1024 + (s[i + 1] - 56320),
          units |-> 2, lone |-> FALSE]
    ELSE [cp |-> s[i], units |-> 1,
          lone |-> IsHighSurrogate(s[i]) \/ IsLowSurrogate(s[i])]

RECURSIVE Utf8EncodeFrom(_, _)
Utf8EncodeFrom(s, i) ==
    IF i > Len(s) THEN <<>>
    ELSE LET c == CodePointAt(s, i)
         IN  Utf8Bytes(IF c.lone THEN 65533 ELSE c.cp)
                 \o Utf8EncodeFrom(s, i + c.units)

\* new TextEncoder().encode(str): UTF-8, an unpaired surrogate becomes U+FFFD.
TextEncoderEncode(s) == Utf8EncodeFrom(s, 1)

-----------------------------------------------------------------------------
(* Numbers and text *)

IsDigit(c) == c >= 48 /\ c <= 57

RECURSIVE Digits(_)
\* The decimal digits of a natural number.
Digits(n) == IF n < 10 THEN <<48 + n>> ELSE Digits(n \div 10) \o <<48 + (n % 10)>>

\* Number::toString of an integer or NaN, as in `i${data}e` and
\* data.length.toString().
NumberToString(v) ==
    IF IsNaN(v) THEN <<78, 97, 78>>                      \* "NaN"
    ELSE IF v.int < 0 THEN <<45>> \o Digits(0 - v.int)   \* '-'
    ELSE Digits(v.int)

\* White space and line terminators, which parseInt and trim skip.
IsWhiteSpace(c) ==
    \/ c \in {9, 10, 11, 12, 13, 32, 160, 5760, 8232, 8233, 8239, 8287, 12288, 65279}
    \/ (c >= 8192 /\ c <= 8202)

RECURSIVE SkipWhiteSpace(_)
SkipWhiteSpace(s) ==
    IF s # <<>> /\ IsWhiteSpace(Head(s)) THEN SkipWhiteSpace(Tail(s)) ELSE s

RECURSIVE DigitsValue(_, _)
\* The value of the longest prefix of decimal digits of s, after acc.
DigitsValue(s, acc) ==
    IF s # <<>> /\ IsDigit(Head(s))
    THEN DigitsValue(Tail(s), acc * 10 + (Head(s) - 48))
    ELSE acc

\* parseInt(str, 10): leading white space and one sign are skipped, the
\* longest prefix of digits is the value, what follows is ignored; NaN when
\* there is no digit.  (-0 is written 0: `${-0}` is "0".)
parseInt(str) ==
    LET s == SkipWhiteSpace(str)
        signed == s # <<>> /\ Head(s) \in {43, 45}       \* '+', '-'
        z == IF signed THEN Tail(s) ELSE s
    IN  IF z = <<>> \/ ~IsDigit(Head(z)) THEN NaN
        ELSE IF signed /\ Head(s) = 45 THEN Num(0 - DigitsValue(z, 0))
        ELSE Num(DigitsValue(z, 0))

-----------------------------------------------------------------------------
(* Plain objects *)

HasKey(entries, key) == \E i \in 1..Len(entries) : entries[i].key = key

\* dict[key] of the code for an own property.
Get(entries, key) ==
    entries[CHOOSE i \in 1..Len(entries) : entries[i].key = key].val

\* dict[key] = v: a new property is created last, an existing one keeps its
\* place and takes the new value.
DictSet(entries, key, v) ==
    IF HasKey(entries, key)
    THEN [i \in 1..Len(entries) |->
            IF entries[i].key = key THEN [key |-> key, val |-> v] ELSE entries[i]]
    ELSE Append(entries, [key |-> key, val |-> v])

\* The elements of a finite set in ascending order of their ranks, rank being
\* a function from the elements to distinct sequences compared by SeqLess.
SortSet(S, rank) ==
    [i \in 1..Cardinality(S) |->
        CHOOSE x \in S : Cardinality({y \in S : SeqLess(rank[y], rank[x])}) = i - 1]

\* A canonical array index ("0", "7", "10"): such keys come first in
\* Object.keys, in numeric order.  (Keys of up to 9 digits; 2^32 - 2 has 10.)
IsArrayIndex(k) ==
    /\ Len(k) \in 1..9
    /\ \A i \in 1..Len(k) : IsDigit(k[i])
    /\ (Len(k) = 1 \/ k[1] # 48)

\* Object.keys(obj): integer keys ascending, then the others as created.
ObjectKeys(entries) ==
    LET keys == [i \in 1..Len(entries) |-> entries[i].key]
        idx == {keys[i] : i \in {j \in 1..Len(keys) : IsArrayIndex(keys[j])}}
    IN  SortSet(idx, [k \in idx |-> <<Len(k)>> \o k])
            \o SelectSeq(keys, LAMBDA k : ~IsArrayIndex(k))

\* Array.prototype.sort() without a comparator, on strings: by code unit.
Sort(keys) ==
    LET S == {keys[i] : i \in 1..Len(keys)} IN SortSet(S, [k \in S |-> k])

-----------------------------------------------------------------------------
(* The bencode codec *)

\* The byte literals of the code.
CHAR_e == 101

CHAR_COLON == 58

CHAR_l == 108

CHAR_d == 100

RECURSIVE decodeBencode(_, _), DecodeList(_, _, _), DecodeDict(_, _, _)

\* The while loop of the list branch: pos and list are its variables.
DecodeList(buf, pos, list) ==
    IF pos < Len(buf) /\ buf[pos + 1] # CHAR_e
    THEN LET res == decodeBencode(buf, pos)
         IN  IF ~res.ok THEN res
             ELSE DecodeList(buf, res.offset, Append(list, res.value))
    ELSE Return(List(list), pos + 1)

\* The while loop of the dictionary branch.  The value is decoded before the
\* key is turned into text; TextDecoder.decode throws a TypeError for a key
\* that is no Uint8Array.
DecodeDict(buf, pos, dict) ==
    IF pos < Len(buf) /\ buf[pos + 1] # CHAR_e
    THEN LET keyResult == decodeBencode(buf, pos)
         IN  IF ~keyResult.ok THEN keyResult
             ELSE LET valueResult == decodeBencode(buf, keyResult.offset)
                  IN  IF ~valueResult.ok THEN valueResult
                      ELSE IF keyResult.value.type # "Uint8Array"
                           THEN Throw("TypeError")
                      ELSE DecodeDict(buf, valueResult.offset,
                               DictSet(dict,
                                       TextDecoderDecode(keyResult.value.bytes),
                                       valueResult.value))
    ELSE Return(Dict(dict), pos + 1)

\* The string branch.
DecodeString(buf, offset) ==
    LET colonPos == IndexOf(buf, CHAR_COLON, offset)
        lengthStr == TextDecoderDecode(Slice(buf, offset, colonPos))
        length == parseInt(lengthStr).int
        stringData == Slice(buf, colonPos + 1, colonPos + 1 + length)
    IN  IF colonPos = -1 THEN Throw("Invalid string encoding")
        ELSE Return(Bytes(stringData), colonPos + 1 + length)

\* The integer branch.
DecodeInteger(buf, offset) ==
    LET end == IndexOf(buf, CHAR_e, offset + 1)
        numStr == TextDecoderDecode(Slice(buf, offset + 1, end))
    IN  IF end = -1 THEN Throw("Invalid integer encoding")
        ELSE Return(parseInt(numStr), end + 1)

\* decodeBencode(data, offset).  Past the end data[offset] is undefined and
\* String.fromCharCode(undefined) is "\0", which matches no branch.
decodeBencode(buf, offset) ==
    LET char == IF offset < Len(buf) THEN buf[offset + 1] ELSE 0
    IN  IF char = 105 THEN DecodeInteger(buf, offset)               \* 'i'
        ELSE IF char = CHAR_l THEN DecodeList(buf, offset + 1, <<>>)
        ELSE IF char = CHAR_d THEN DecodeDict(buf, offset + 1, <<>>)
        ELSE IF char >= 48 /\ char <= 57 THEN DecodeString(buf, offset)
        ELSE Throw("Invalid bencode data")

\* The Uint8Array branch of encodeBencode.
EncodeBytes(b) == TextEncoderEncode(NumberToString(Num(Len(b)))) \o <<CHAR_COLON>> \o b

\* The order in which the object branch emits the keys.
EncodeKeyOrder(entries) == Sort(ObjectKeys(entries))

RECURSIVE encodeBencode(_)
\* encodeBencode(data) for the four kinds of value a decoded tree holds.
encodeBencode(v) ==
    IF v.type = "number"
    THEN TextEncoderEncode(<<105>> \o NumberToString(v) \o <<CHAR_e>>)
    ELSE IF v.type = "Uint8Array" THEN EncodeBytes(v.bytes)
    ELSE IF v.type = "Array"
    THEN <<CHAR_l>>
             \o Concat([i \in 1..Len(v.items) |-> encodeBencode(v.items[i])])
             \o <<CHAR_e>>
    ELSE LET keys == EncodeKeyOrder(v.entries)
         IN  <<CHAR_d>>
                 \o Concat([i \in 1..Len(keys) |->
                        EncodeBytes(TextEncoderEncode(keys[i]))
                            \o encodeBencode(Get(v.entries, keys[i]))])
                 \o <<CHAR_e>>

-----------------------------------------------------------------------------
(* The torrent extractor *)

KEY_info == <<105, 110, 102, 111>>

KEY_name == <<110, 97, 109, 101>>

KEY_announce == <<97, 110, 110, 111, 117, 110, 99, 101>>

KEY_announce_list == KEY_announce \o <<45, 108, 105, 115, 116>>

KEY_files == <<102, 105, 108, 101, 115>>

KEY_length == <<108, 101, 110, 103, 116, 104>>

KEY_path == <<112, 97, 116, 104>>

\* obj.key read from a decoded value: objects answer with their own
\* property; numbers, arrays and Uint8Arrays have none of the names read
\* here except length (see LengthOf).
Prop(v, key) ==
    IF v.type = "object" /\ HasKey(v.entries, key)
    THEN Some(Get(v.entries, key))
    ELSE Undefined

\* v.length: an object's own property, the size of an array or Uint8Array.
LengthOf(v) ==
    IF v.type = "Array" THEN Some(Num(Len(v.items)))
    ELSE IF v.type = "Uint8Array" THEN Some(Num(Len(v.bytes)))
    ELSE Prop(v, KEY_length)

\* The truth value of an optional decoded value: undefined, 0 and NaN are
\* false, every object (an empty Uint8Array or array too) is true.
Truthy(m) ==
    /\ IsDefined(m)
    /\ The(m).type = "number" => (IsInt(The(m)) /\ The(m).int # 0)

\* new TextDecoder('utf-8').decode(v): a TypeError unless v is a Uint8Array.
DecodeText(v) ==
    IF v.type = "Uint8Array"
    THEN [ok |-> TRUE, str |-> TextDecoderDecode(v.bytes)]
    ELSE Throw("TypeError")

\* Bytes of a SHA-1 digest.
DIGEST_LEN == 20

RECURSIVE Mix(_, _, _)
Mix(b, i, k) ==
    IF i > Len(b) THEN (Len(b) * k) % 256
    ELSE ((i * k + 7) * (b[i] + 1) + Mix(b, i + 1, k)) % 256

\* crypto.subtle.digest('SHA-1', bytes), an external primitive: stood in for
\* by a fixed function from byte strings to DIGEST_LEN bytes.
Sha1(b) == [k \in 1..DIGEST_LEN |-> Mix(b, 1, k)]

\* A variant of the digit in upper case.
HexDigit_Upper(n) == IF n < 10 THEN 48 + n ELSE 55 + n

\* One digit of Number.prototype.toString(16).
HexDigit(n) == IF n < 10 THEN 48 + n ELSE 87 + n

\* Array.from(bytes).map(b => b.toString(16).padStart(2, '0')).join('')
HexString(b) ==
    Concat([i \in 1..Len(b) |-> <<HexDigit(b[i] \div 16), HexDigit(b[i] % 16)>>])

RECURSIVE Join(_, _)
\* Array.prototype.join(sep)
Join(parts, sep) ==
    IF parts = <<>> THEN <<>>
    ELSE IF Len(parts) = 1 THEN parts[1]
    ELSE parts[1] \o sep \o Join(Tail(parts), sep)

RECURSIVE AnnounceGroup(_, _, _)
\* The inner loop over one tracker group: the announce array after it.
AnnounceGroup(group, i, announce) ==
    IF i > Len(group) THEN [ok |-> TRUE, list |-> announce]
    ELSE LET trackerUrl == DecodeText(group[i])
         IN  IF ~trackerUrl.ok THEN trackerUrl
             ELSE AnnounceGroup(group, i + 1,
                      IF \E j \in 1..Len(announce) : announce[j] = trackerUrl.str
                      THEN announce
                      ELSE Append(announce, trackerUrl.str))

RECURSIVE AnnounceList(_, _, _)
\* The loop over torrentData['announce-list']; a group that is no array is
\* skipped.
AnnounceList(groups, i, announce) ==
    IF i > Len(groups) THEN [ok |-> TRUE, list |-> announce]
    ELSE IF groups[i].type # "Array" THEN AnnounceList(groups, i + 1, announce)
    ELSE LET r == AnnounceGroup(groups[i].items, 1, announce)
         IN  IF ~r.ok THEN r ELSE AnnounceList(groups, i + 1, r.list)

\* "Get tracker list": the announce array, or what decoding a tracker threw.
Announce(torrentData) ==
    LET main == Prop(torrentData, KEY_announce)
        first == IF Truthy(main) THEN DecodeText(The(main))
                 ELSE [ok |-> TRUE, str |-> <<>>]
        list == Prop(torrentData, KEY_announce_list)
    IN  IF ~first.ok THEN first
        ELSE LET announce == IF Truthy(main) THEN <<first.str>> ELSE <<>>
             IN  IF Truthy(list) /\ The(list).type = "Array"
                 THEN AnnounceList(The(list).items, 1, announce)
                 ELSE [ok |-> TRUE, list |-> announce]

RECURSIVE PathParts(_, _)
\* file.path.map(part => new TextDecoder('utf-8').decode(part)) for an array.
PathParts(parts, i) ==
    IF i > Len(parts) THEN [ok |-> TRUE, list |-> <<>>]
    ELSE LET head == DecodeText(parts[i])
             rest == PathParts(parts, i + 1)
         IN  IF ~head.ok THEN head
             ELSE IF ~rest.ok THEN rest
             ELSE [ok |-> TRUE, list |-> <<head.str>> \o rest.list]

\* file.path.map(...) of any truthy path: an array is mapped, an empty
\* Uint8Array maps to itself, anything else has no usable map.
PathOf(path) ==
    IF path.type = "Array" THEN PathParts(path.items, 1)
    ELSE IF path.type = "Uint8Array" /\ path.bytes = <<>>
    THEN [ok |-> TRUE, list |-> <<>>]
    ELSE Throw("TypeError")

RECURSIVE MultiFile(_, _, _, _)
\* The loop over info.files: files and totalLength after it.  An entry whose
\* path or length is missing, 0 or NaN is skipped.  (Lengths are numbers.)
MultiFile(entries, i, files, totalLength) ==
    IF i > Len(entries) THEN [ok |-> TRUE, files |-> files, total |-> totalLength]
    ELSE LET file == entries[i]
             path == Prop(file, KEY_path)
             length == Prop(file, KEY_length)
         IN  IF Truthy(path) /\ Truthy(length)
             THEN LET pathParts == PathOf(The(path))
                  IN  IF ~pathParts.ok THEN pathParts
                      ELSE MultiFile(entries, i + 1,
                               Append(files,
                                      [path |-> Join(pathParts.list, <<47>>),
                                       length |-> The(length).int]),
                               totalLength + The(length).int)
             ELSE MultiFile(entries, i + 1, files, totalLength)

\* "Get file information": files and totalLength.
FileInformation(info, name) ==
    LET files == Prop(info, KEY_files)
        length == LengthOf(info)
    IN  IF Truthy(files) /\ The(files).type = "Array"
        THEN MultiFile(The(files).items, 1, <<>>, 0)
        ELSE IF Truthy(length)
        THEN [ok |-> TRUE,
              files |-> IF IsDefined(name) /\ The(name) # <<>>
                        THEN <<[path |-> The(name), length |-> The(length).int]>>
                        ELSE <<>>,
              total |-> The(length).int]
        ELSE [ok |-> TRUE, files |-> <<>>, total |-> 0]

\* "Calculate InfoHash (SHA1 hash of info field)"
InfoHash(info) == HexString(Sha1(encodeBencode(info)))

\* The text of info.name when it is truthy, or what decoding it threw.
NameText(nameBytes) ==
    IF Truthy(nameBytes) THEN DecodeText(The(nameBytes))
    ELSE [ok |-> TRUE, str |-> <<>>]

\* "Get torrent name": undefined when info.name is missing (or 0, or NaN).
TorrentName(info, nameText) ==
    IF ~nameText.ok THEN nameText
    ELSE [ok |-> TRUE,
          name |-> IF Truthy(Prop(info, KEY_name)) THEN Some(nameText.str)
                   ELSE Undefined]

\* The return statement: an empty announce or files and a total of 0 are
\* returned as undefined.
Returned(infoHash, name, announce, fileInfo) ==
    IF ~fileInfo.ok THEN fileInfo
    ELSE [ok |-> TRUE,
          infoHash |-> infoHash,
          name |-> name,
          announce |-> IF Len(announce) > 0 THEN Some(announce) ELSE Undefined,
          files |-> IF Len(fileInfo.files) > 0 THEN Some(fileInfo.files)
                    ELSE Undefined,
          length |-> IF fileInfo.total > 0 THEN Some(fileInfo.total)
                     ELSE Undefined]

\* The statements from the name on, in the order they can throw.
ExtractFields(info, infoHash, name, announce) ==
    IF ~name.ok THEN name
    ELSE IF ~announce.ok THEN announce
    ELSE Returned(infoHash, name.name, announce.list,
                  FileInformation(info, name.name))

\* A variant that hashes the whole decoded file instead of its info.
ExtractInfo_HashesWhole(torrentData, info) ==
    ExtractFields(info, InfoHash(torrentData),
                  TorrentName(info, NameText(Prop(info, KEY_name))),
                  Announce(torrentData))

\* The statements after the check of torrentData.
ExtractInfo(torrentData, info) ==
    ExtractFields(info, InfoHash(info),
                  TorrentName(info, NameText(Prop(info, KEY_name))),
                  Announce(torrentData))

\* The check of the decoded value: an object with 'info' goes on.
ExtractDecoded(decoded) ==
    IF ~decoded.ok THEN decoded
    ELSE IF \/ ~Truthy(Some(decoded.value))
            \/ decoded.value.type = "number"
            \/ ~IsDefined(Prop(decoded.value, KEY_info))
    THEN Throw("Invalid torrent file format: missing info field")
    ELSE ExtractInfo(decoded.value, Get(decoded.value.entries, KEY_info))

\* The try block of parseBencodeBuffer: the TorrentInstance, or what was
\* thrown inside it.
ExtractTorrent(buffer) == ExtractDecoded(decodeBencode(buffer, 0))

\* The outcome of the try block after the catch.
Caught(r) ==
    IF r.ok THEN r ELSE Throw("Invalid or corrupted torrent file format")

\* parseBencodeBuffer(buffer): whatever the try block throws is logged and
\* replaced by one error.
parseBencodeBuffer(buffer) == Caught(ExtractTorrent(buffer))

-----------------------------------------------------------------------------
(* Text: trim, case, percent-encoding, URL and URLSearchParams *)

RECURSIVE TrimEnd(_)
TrimEnd(s) ==
    IF s # <<>> /\ IsWhiteSpace(s[Len(s)]) THEN TrimEnd(SubSeq(s, 1, Len(s) - 1))
    ELSE s

\* String.prototype.trim
Trim(s) == TrimEnd(SkipWhiteSpace(s))

\* String.prototype.toLowerCase (the letters A-Z; the texts lowered here hold
\* no other cased letter).
ToLowerCase(s) ==
    [i \in 1..Len(s) |-> IF s[i] >= 65 /\ s[i] <= 90 THEN s[i] + 32 ELSE s[i]]

\* [a-fA-F0-9]
IsHexDigit(c) == IsDigit(c) \/ (c >= 65 /\ c <= 70) \/ (c >= 97 /\ c <= 102)

HexValue(c) == IF IsDigit(c) THEN c - 48 ELSE IF c >= 97 THEN c - 87 ELSE c - 55

\* The {40} of the InfoHash pattern.
HASH_LEN == 40

\* /^[a-fA-F0-9]{40}$/.test(s)
IsInfoHashText(s) == Len(s) = HASH_LEN /\ \A i \in 1..Len(s) : IsHexDigit(s[i])

\* %XY at 1-based position k of s, X and Y hexadecimal.
IsEscapeAt(s, k) ==
    /\ k + 2 <= Len(s)
    /\ s[k] = 37
    /\ IsHexDigit(s[k + 1])
    /\ IsHexDigit(s[k + 2])

EscapeValue(s, k) == HexValue(s[k + 1]) * 16 + HexValue(s[k + 2])

\* A byte as %XY with upper-case digits.
Escape(b) ==
    LET Hex(n) == IF n < 10 THEN 48 + n ELSE 55 + n
    IN  <<37, Hex(b \div 16), Hex(b % 16)>>

EscapeAll(bs) == Concat([i \in 1..Len(bs) |-> Escape(bs[i])])

\* The characters encodeURIComponent leaves alone: A-Z a-z 0-9 - _ . ! ~ * ' ( )
IsUnreserved(c) ==
    \/ IsDigit(c)
    \/ (c >= 65 /\ c <= 90)
    \/ (c >= 97 /\ c <= 122)
    \/ c \in {45, 95, 46, 33, 126, 42, 39, 40, 41}

RECURSIVE EncodeURIFrom(_, _)
EncodeURIFrom(s, i) ==
    IF i > Len(s) THEN [ok |-> TRUE, str |-> <<>>]
    ELSE LET c == CodePointAt(s, i)
             rest == EncodeURIFrom(s, i + c.units)
         IN  IF c.lone THEN Throw("URIError")
             ELSE IF ~rest.ok THEN rest
             ELSE [ok |-> TRUE,
                   str |-> (IF IsUnreserved(c.cp) THEN <<c.cp>>
                            ELSE EscapeAll(Utf8Bytes(c.cp))) \o rest.str]

\* encodeURIComponent(s): a URIError for an unpaired surrogate.
encodeURIComponent(s) == EncodeURIFrom(s, 1)

RECURSIVE DecodeURIFrom(_, _)
DecodeURIFrom(s, k) ==
    IF k > Len(s) THEN [ok |-> TRUE, str |-> <<>>]
    ELSE IF s[k] # 37
    THEN LET rest == DecodeURIFrom(s, k + 1)
         IN  IF ~rest.ok THEN rest ELSE [ok |-> TRUE, str |-> <<s[k]>> \o rest.str]
    ELSE IF ~IsEscapeAt(s, k) THEN Throw("URIError")
    ELSE LET b == EscapeValue(s, k)
             n == IF b < 128 THEN 1
                  ELSE IF b >= 192 /\ b <= 223 THEN 2
                  ELSE IF b >= 224 /\ b <= 239 THEN 3
                  ELSE IF b >= 240 /\ b <= 247 THEN 4
                  ELSE 0
             escaped == \A j \in 0..(n - 1) : IsEscapeAt(s, k + 3 * j)
             octets == [j \in 1..n |-> EscapeValue(s, k + 3 * (j - 1))]
             rest == DecodeURIFrom(s, k + 3 * n)
         IN  IF n = 0 \/ ~escaped THEN Throw("URIError")
             ELSE IF Utf8DecodeAt(octets, 1).next # n + 1 THEN Throw("URIError")
             ELSE IF ~rest.ok THEN rest
             ELSE [ok |-> TRUE,
                   str |-> CodeUnits(Utf8DecodeAt(octets, 1).cp) \o rest.str]

\* decodeURIComponent(s): a URIError for a % that starts no escape and for
\* escapes that are no UTF-8.
decodeURIComponent(s) == DecodeURIFrom(s, 1)

RECURSIVE Split(_, _)
\* String.prototype.split(sep) for a one-character separator.
Split(s, sep) ==
    LET at == IndexOf(s, sep, 0)
    IN  IF at = -1 THEN <<s>>
        ELSE <<Slice(s, 0, at)>> \o Split(Slice(s, at + 1, Len(s)), sep)

\* The query percent-encode set of the URL standard: C0 controls, space,
\* ", #, <, > and everything above ~.
InQueryEncodeSet(c) == c <= 32 \/ c > 126 \/ c \in {34, 35, 60, 62}

\* The scheme of the links parsed here.
MAGNET == <<109, 97, 103, 110, 101, 116, 58>>

\* new URL(link).search for a link that starts with magnet: and does not go
\* on with //: tabs and newlines are removed, the path is opaque, the query
\* runs from the first ? to the first #, is percent-encoded and, unless
\* empty, returned after a "?".  (Such a link always parses.)
URLSearch(link) ==
    LET clean == SelectSeq(link, LAMBDA c : c \notin {9, 10, 13})
        rest == Slice(clean, Len(MAGNET), Len(clean))
        hash == IndexOf(rest, 35, 0)
        upto == IF hash = -1 THEN rest ELSE Slice(rest, 0, hash)
        mark == IndexOf(upto, 63, 0)
        query == IF mark = -1 THEN <<>> ELSE Slice(upto, mark + 1, Len(upto))
        Unit(i) == LET c == CodePointAt(query, i)
                   IN  IF i > 1 /\ IsLowSurrogate(query[i])
                          /\ IsHighSurrogate(query[i - 1])
                       THEN <<>>
                       ELSE IF InQueryEncodeSet(c.cp)
                       THEN EscapeAll(Utf8Bytes(IF c.lone THEN 65533 ELSE c.cp))
                       ELSE <<c.cp>>
        encoded == Concat([i \in 1..Len(query) |-> Unit(i)])
    IN  IF encoded = <<>> THEN <<>> ELSE <<63>> \o encoded

RECURSIVE PercentDecode(_, _)
\* The percent-decoding of a byte sequence: a % that starts no escape stays.
PercentDecode(bs, k) ==
    IF k > Len(bs) THEN <<>>
    ELSE IF IsEscapeAt(bs, k) THEN <<EscapeValue(bs, k)>> \o PercentDecode(bs, k + 3)
    ELSE <<bs[k]>> \o PercentDecode(bs, k + 1)

\* The decoding of a name or a value of application/x-www-form-urlencoded:
\* + is a space, then percent-decoding, then UTF-8 without BOM handling.
FormDecode(s) ==
    LET spaced == [i \in 1..Len(s) |-> IF s[i] = 43 THEN 32 ELSE s[i]]
    IN  Utf8DecodeWithoutBOM(PercentDecode(TextEncoderEncode(spaced), 1))

\* new URLSearchParams(search): the (name, value) pairs in order.
URLSearchParams(search) ==
    LET q == IF search # <<>> /\ search[1] = 63 THEN Tail(search) ELSE search
        pieces == SelectSeq(Split(q, 38), LAMBDA x : x # <<>>)
        Pair(piece) ==
            LET eq == IndexOf(piece, 61, 0)
            IN  IF eq = -1 THEN [name |-> FormDecode(piece), value |-> <<>>]
                ELSE [name |-> FormDecode(Slice(piece, 0, eq)),
                      value |-> FormDecode(Slice(piece, eq + 1, Len(piece)))]
    IN  [i \in 1..Len(pieces) |-> Pair(pieces[i])]

\* params.getAll(name)
GetAll(params, name) ==
    LET hits == SelectSeq(params, LAMBDA p : p.name = name)
    IN  [i \in 1..Len(hits) |-> hits[i].value]

\* params.get(name): the first value, or null.
GetFirst(params, name) ==
    IF GetAll(params, name) = <<>> THEN Undefined ELSE Some(GetAll(params, name)[1])

-----------------------------------------------------------------------------
(* parseInput, parseMagnetLink and generateMagnetLink *)

\* A TorrentInstance; a property that is not set reads undefined.
TorrentInstance(infoHash, name, announce) ==
    [ok |-> TRUE, infoHash |-> infoHash, name |-> name, announce |-> announce,
     files |-> Undefined, length |-> Undefined]

PARAM_xt == <<120, 116>>

PARAM_dn == <<100, 110>>

PARAM_tr == <<116, 114>>

\* 'urn:btih:'
URN_BTIH == <<117, 114, 110, 58, 98, 116, 105, 104, 58>>

\* The 9 of xt.substring(9).
URN_BTIH_LEN == 9

\* A variant of the validation whose pattern lost its {40}.
ValidInfoHash_AnyLength(infoHash) ==
    infoHash # <<>> /\ \A i \in 1..Len(infoHash) : IsHexDigit(infoHash[i])

\* "Validate InfoHash format": the test on the lowered text.
ValidInfoHash(infoHash) == IsInfoHashText(infoHash)

\* A variant of the xt check that lost its !xt: a missing xt is a TypeError
\* of xt.startsWith.
InfoHashOf_NoNullCheck(xt) ==
    LET infoHash == ToLowerCase(Slice(The(xt), URN_BTIH_LEN, Len(The(xt))))
    IN  IF ~IsDefined(xt) THEN Throw("TypeError")
        ELSE IF ~StartsWith(The(xt), URN_BTIH)
        THEN Throw("Invalid magnet link format: missing valid InfoHash")
        ELSE IF ~IsInfoHashText(infoHash)
        THEN Throw("Invalid InfoHash format in magnet link")
        ELSE [ok |-> TRUE, infoHash |-> infoHash]

\* "Get InfoHash" and "Validate InfoHash format": the lowered text after the
\* prefix of params.get('xt'), or what is thrown for it.
InfoHashOf(xt) ==
    LET infoHash == ToLowerCase(Slice(The(xt), URN_BTIH_LEN, Len(The(xt))))
    IN  IF ~IsDefined(xt) \/ The(xt) = <<>> \/ ~StartsWith(The(xt), URN_BTIH)
        THEN Throw("Invalid magnet link format: missing valid InfoHash")
        ELSE IF ~ValidInfoHash(infoHash)
        THEN Throw("Invalid InfoHash format in magnet link")
        ELSE [ok |-> TRUE, infoHash |-> infoHash]

\* "Get name": params.get('dn') decoded once more, when there is one.
MagnetName(name) ==
    IF IsDefined(name) /\ The(name) # <<>>
    THEN LET decoded == decodeURIComponent(The(name))
         IN  IF decoded.ok THEN [ok |-> TRUE, name |-> Some(decoded.str)]
             ELSE decoded
    ELSE [ok |-> TRUE, name |-> Undefined]

\* new URLSearchParams(new URL(magnetLink).search)
MagnetParams(link) == URLSearchParams(URLSearch(link))

\* parseMagnetLink(magnetLink); its catch rethrows every Error as it is.
parseMagnetLink(link) ==
    LET params == MagnetParams(link)
        infoHash == InfoHashOf(GetFirst(params, PARAM_xt))
        name == MagnetName(GetFirst(params, PARAM_dn))
        announce == GetAll(params, PARAM_tr)
    IN  IF ~infoHash.ok THEN infoHash
        ELSE IF ~name.ok THEN name
        ELSE TorrentInstance(infoHash.infoHash, name.name, Some(announce))

\* A variant of parseInput that returns the hash as it was typed.
parseInput_NoLowerCase(text) ==
    LET trimmedInput == Trim(text)
    IN  IF StartsWith(trimmedInput, MAGNET) THEN parseMagnetLink(trimmedInput)
        ELSE IF IsInfoHashText(trimmedInput)
        THEN TorrentInstance(trimmedInput, Undefined, Some(<<>>))
        ELSE Throw("Invalid input format")

\* A variant of parseInput that does not trim.
parseInput_NoTrim(text) ==
    IF StartsWith(text, MAGNET) THEN parseMagnetLink(text)
    ELSE IF IsInfoHashText(text)
    THEN TorrentInstance(ToLowerCase(text), Undefined, Some(<<>>))
    ELSE Throw("Invalid input format")

\* parseInput(input)
parseInput(text) ==
    LET trimmedInput == Trim(text)
    IN  IF StartsWith(trimmedInput, MAGNET) THEN parseMagnetLink(trimmedInput)
        ELSE IF IsInfoHashText(trimmedInput)
        THEN TorrentInstance(ToLowerCase(trimmedInput), Undefined, Some(<<>>))
        ELSE Throw("Invalid input format")

\* A variant of the name choice in which the descriptor's name comes first.
LinkName_DescriptorFirst(t, name) ==
    IF IsDefined(t.name) /\ The(t.name) # <<>> THEN t.name ELSE name

\* customName || torrent.name
LinkName(t, name) ==
    IF IsDefined(name) /\ The(name) # <<>> THEN name ELSE t.name

\* A variant of the tracker choice in which the flag is looked at first.
LinkTrackers_FlagFirst(t, flag, trackers) ==
    IF flag /\ IsDefined(trackers) /\ Len(The(trackers)) > 0 THEN The(trackers)
    ELSE IF IsDefined(t.announce) THEN The(t.announce)
    ELSE <<>>

\* "Add trackers": the list whose entries become tr parameters.
LinkTrackers(t, flag, trackers) ==
    IF IsDefined(t.announce) /\ Len(The(t.announce)) > 0 THEN The(t.announce)
    ELSE IF flag /\ IsDefined(trackers) /\ Len(The(trackers)) > 0
    THEN The(trackers)
    ELSE <<>>

RECURSIVE TrackerParams(_, _)
\* The for loops: &tr= and the encoded tracker, for each tracker in order.
TrackerParams(trackers, i) ==
    IF i > Len(trackers) THEN [ok |-> TRUE, str |-> <<>>]
    ELSE LET one == encodeURIComponent(trackers[i])
             rest == TrackerParams(trackers, i + 1)
         IN  IF ~one.ok THEN one
             ELSE IF ~rest.ok THEN rest
             ELSE [ok |-> TRUE, str |-> <<38>> \o PARAM_tr \o <<61>> \o
                 one.str \o rest.str]

\* generateMagnetLink(torrent, customName, addTrackers, customTrackers): the
\* link, or the URIError encodeURIComponent threw.
generateMagnetLink(t, name, flag, trackers) ==
    LET base == MAGNET \o <<63>> \o PARAM_xt \o <<61>> \o URN_BTIH \o t.infoHash
        used == LinkName(t, name)
        dn == IF IsDefined(used) /\ The(used) # <<>>
              THEN encodeURIComponent(The(used))
              ELSE [ok |-> TRUE, str |-> <<>>]
        tr == TrackerParams(LinkTrackers(t, flag, trackers), 1)
    IN  IF ~dn.ok THEN dn
        ELSE IF ~tr.ok THEN tr
        ELSE [ok |-> TRUE,
              link |-> base
                        \o (IF IsDefined(used) /\ The(used) # <<>>
                            THEN <<38>> \o PARAM_dn \o <<61>> \o dn.str
                            ELSE <<>>)
                        \o tr.str]

-----------------------------------------------------------------------------
(* Inputs of the codec *)

\* Longest buffer of the exhaustive part of the decoder's inputs.
MaxBufLen == 3

\* Most elements of a generated list.
MaxItems == 2

\* Most entries of a generated dictionary.
MaxEntries == 2

SeqsUpTo(S, n) == UNION {[1..k -> S] : k \in 0..n}

\* 'i' 'l' 'd' 'e' '0' '1' '2' ':' '-' 'a' and a byte that is no UTF-8.
DecodeAlphabet == {105, 108, 100, 101, 48, 49, 50, 58, 45, 97, 255}

ShortBuffers == SeqsUpTo(DecodeAlphabet, MaxBufLen)

\* i0e  i-1e  i10e  0:  1:a  1:<FF>  2:ae
ScalarTexts ==
    { <<105, 48, 101>>, <<105, 45, 49, 101>>, <<105, 49, 48, 101>>,
      <<48, 58>>, <<49, 58, 97>>, <<49, 58, 255>>, <<50, 58, 97, 101>> }

\* Keys: "", "a", "b", "1", the byte FF, a byte order mark before "a",
\* U+FF61 (EF BD A1) and U+10000 (F0 90 80 80).
KeyTexts ==
    { <<48, 58>>, <<49, 58, 97>>, <<49, 58, 98>>, <<49, 58, 49>>,
      <<49, 58, 255>>, <<52, 58, 239, 187, 191, 97>>,
      <<51, 58, 239, 189, 161>>, <<52, 58, 240, 144, 128, 128>> }

ListTexts ==
    { <<CHAR_l>> \o Concat(items) \o <<CHAR_e>> :
        items \in SeqsUpTo(ScalarTexts, MaxItems) }

\* What a generated dictionary holds: a scalar, le, de or d1:ai0ee.
EntryValueTexts ==
    ScalarTexts \cup { <<108, 101>>, <<100, 101>>,
                       <<100, 49, 58, 97, 105, 48, 101, 101>> }

DictTexts ==
    { <<CHAR_d>> \o Concat([i \in 1..Len(es) |-> es[i][1] \o es[i][2]]) \o <<CHAR_e>> :
        es \in SeqsUpTo(KeyTexts \X EntryValueTexts, MaxEntries) }

\* The example of the specification: 10:short
TruncatedExample == <<49, 48, 58, 115, 104, 111, 114, 116>>

DecodeInputs == ShortBuffers \cup ListTexts \cup DictTexts \cup {TruncatedExample}

\* The values handed to the encoder: well-formed trees whose keys are
\* well-formed strings ("", "a", "b", "1", U+FF61, U+10000 as a surrogate
\* pair, U+FEFF before "a").
ScalarValues ==
    { Num(0), Num(-1), Num(10), Bytes(<<>>), Bytes(<<97>>), Bytes(<<255>>),
      Bytes(<<97, 101>>) }

KeyValues ==
    { <<>>, <<97>>, <<98>>, <<49>>, <<65377>>, <<55296, 56320>>, <<65279, 97>> }

ListValues == { List(items) : items \in SeqsUpTo(ScalarValues, MaxItems) }

EntryValues ==
    ScalarValues \cup { List(<<>>), Dict(<<>>),
                        Dict(<<[key |-> <<97>>, val |-> Num(0)]>>) }

DictValues ==
    { Dict([i \in 1..Len(es) |-> [key |-> es[i][1], val |-> es[i][2]]]) :
        es \in { e \in SeqsUpTo(KeyValues \X EntryValues, MaxEntries) :
                    \A i, j \in 1..Len(e) : i # j => e[i][1] # e[j][1] } }

EncodeInputs == ScalarValues \cup ListValues \cup DictValues

-----------------------------------------------------------------------------
(* The codec as a state machine: one call of the decoder on a buffer and the
   encoder on what it returned, or one call of the encoder on a value and
   the decoder on what it returned. *)

InitCodec ==
    /\ \/ pc = "decode" /\ data \in DecodeInputs /\ value = NONE
       \/ pc = "encode" /\ value \in EncodeInputs /\ data = NONE
    /\ result = NONE
    /\ bytes = NONE
    /\ input = NONE
    /\ torrent = NONE
    /\ customName = NONE
    /\ addTrackers = NONE
    /\ customTrackers = NONE
    /\ magnetLink = NONE
    /\ reparsed = NONE
    /\ NoLoop /\ NoApp

\* decodeBencode(data)
Decode ==
    /\ pc = "decode"
    /\ result' = decodeBencode(data, 0)
    /\ pc' = "decoded"
    /\ UNCHANGED <<data, value, bytes, magnetVars, loopVars, appVars>>

\* encodeBencode(result.value), as parseBencodeBuffer does with info
Reencode ==
    /\ pc = "decoded"
    /\ result.ok
    /\ bytes' = encodeBencode(result.value)
    /\ pc' = "reencoded"
    /\ UNCHANGED <<data, value, result, magnetVars, loopVars, appVars>>

\* encodeBencode(value)
Encode ==
    /\ pc = "encode"
    /\ bytes' = encodeBencode(value)
    /\ pc' = "encoded"
    /\ UNCHANGED <<data, value, result, magnetVars, loopVars, appVars>>

\* decodeBencode of the bytes just encoded
Redecode ==
    /\ pc = "encoded"
    /\ result' = decodeBencode(bytes, 0)
    /\ pc' = "redecoded"
    /\ UNCHANGED <<data, value, bytes, magnetVars, loopVars, appVars>>

NextCodec == Decode \/ Reencode \/ Encode \/ Redecode

SpecCodec == InitCodec /\ [][NextCodec]_vars

-----------------------------------------------------------------------------
(* Reference notions the codec's properties are stated with (bencode as      *)
(* BEP 3 and the specification's section 4.1 define it): byte-wise order,    *)
(* structural equality, validity of a buffer and its canonical form.         *)

\* The keys of a set in ascending byte-wise order of the bytes they are
\* written as.
ByteSorted(keys) == SortSet(keys, [k \in keys |-> TextEncoderEncode(k)])

\* The same properties created in every other order.
Reorderings(entries) ==
    { [i \in 1..Len(entries) |-> entries[p[i]]] :
        p \in Permutations(1..Len(entries)) }

RECURSIVE StructEq(_, _)
\* Structural equality of two value trees; the entries of a dictionary are a
\* mapping, their order does not count.
StructEq(a, b) ==
    /\ a.type = b.type
    /\ IF a.type = "Array"
       THEN /\ Len(a.items) = Len(b.items)
            /\ \A i \in 1..Len(a.items) : StructEq(a.items[i], b.items[i])
       ELSE IF a.type = "object"
       THEN /\ Len(a.entries) = Len(b.entries)
            /\ \A i \in 1..Len(a.entries) :
                  /\ HasKey(b.entries, a.entries[i].key)
                  /\ StructEq(a.entries[i].val, Get(b.entries, a.entries[i].key))
       ELSE a = b

Invalid == [ok |-> FALSE]

\* The text between 'i' and 'e' of a valid integer: 0, or an optional '-'
\* and digits that do not start with 0.
IsIntegerText(t) ==
    LET d == IF t # <<>> /\ Head(t) = 45 THEN Tail(t) ELSE t
    IN  /\ d # <<>>
        /\ \A i \in 1..Len(d) : IsDigit(d[i])
        /\ (d[1] # 48 \/ t = <<48>>)

\* The text before ':' of a valid string: digits without a leading 0, or 0.
IsLengthText(t) ==
    /\ t # <<>>
    /\ \A i \in 1..Len(t) : IsDigit(t[i])
    /\ (t[1] # 48 \/ Len(t) = 1)

RECURSIVE Canon(_, _), CanonList(_, _, _), CanonDict(_, _, _)
\* The value that starts at 0-based offset pos of buf, read strictly: whether
\* it is valid, its bytes with the keys of every dictionary in ascending
\* byte order (text), the offset after it (next) and, for a string, its
\* bytes (str).
Canon(buf, pos) ==
    IF pos >= Len(buf) THEN Invalid
    ELSE IF buf[pos + 1] = 105
    THEN LET end == IndexOf(buf, CHAR_e, pos + 1)
         IN  IF end = -1 \/ ~IsIntegerText(Slice(buf, pos + 1, end)) THEN Invalid
             ELSE [ok |-> TRUE, text |-> Slice(buf, pos, end + 1),
                   next |-> end + 1, isStr |-> FALSE, str |-> <<>>]
    ELSE IF IsDigit(buf[pos + 1])
    THEN LET colon == IndexOf(buf, CHAR_COLON, pos)
             n == DigitsValue(Slice(buf, pos, colon), 0)
         IN  IF colon = -1 \/ ~IsLengthText(Slice(buf, pos, colon)) THEN Invalid
             ELSE IF colon + 1 + n > Len(buf) THEN Invalid
             ELSE [ok |-> TRUE, text |-> Slice(buf, pos, colon + 1 + n),
                   next |-> colon + 1 + n, isStr |-> TRUE,
                   str |-> Slice(buf, colon + 1, colon + 1 + n)]
    ELSE IF buf[pos + 1] = CHAR_l THEN CanonList(buf, pos + 1, <<>>)
    ELSE IF buf[pos + 1] = CHAR_d THEN CanonDict(buf, pos + 1, <<>>)
    ELSE Invalid

CanonList(buf, pos, text) ==
    IF pos >= Len(buf) THEN Invalid
    ELSE IF buf[pos + 1] = CHAR_e
    THEN [ok |-> TRUE, text |-> <<CHAR_l>> \o text \o <<CHAR_e>>,
          next |-> pos + 1, isStr |-> FALSE, str |-> <<>>]
    ELSE LET r == Canon(buf, pos)
         IN  IF ~r.ok THEN Invalid ELSE CanonList(buf, r.next, text \o r.text)

CanonDict(buf, pos, pairs) ==
    IF pos >= Len(buf) THEN Invalid
    ELSE IF buf[pos + 1] = CHAR_e
    THEN LET keys == {pairs[i].key : i \in 1..Len(pairs)}
             order == SortSet(keys, [k \in keys |-> k])
             TextOf(k) == pairs[CHOOSE i \in 1..Len(pairs) : pairs[i].key = k].text
         IN  IF Cardinality(keys) # Len(pairs) THEN Invalid
             ELSE [ok |-> TRUE,
                   text |-> <<CHAR_d>>
                              \o Concat([i \in 1..Len(order) |-> TextOf(order[i])])
                              \o <<CHAR_e>>,
                   next |-> pos + 1, isStr |-> FALSE, str |-> <<>>]
    ELSE LET k == Canon(buf, pos)
         IN  IF ~k.ok \/ ~k.isStr THEN Invalid
             ELSE LET v == Canon(buf, k.next)
                  IN  IF ~v.ok THEN Invalid
                      ELSE CanonDict(buf, v.next,
                               Append(pairs, [key |-> k.str, text |-> k.text \o v.text]))

\* A valid bencode buffer: exactly one valid value.
ValidBencode(buf) == Canon(buf, 0).ok /\ Canon(buf, 0).next = Len(buf)

\* canonicalize(buf): buf with only its dictionary keys reordered ascending.
Canonicalize(buf) == Canon(buf, 0).text

\* A buffer that opens with <digits>: and has fewer bytes after the colon than
\* the digits declare, as 10:short has.
IsTruncatedString(buf) ==
    LET colon == IndexOf(buf, CHAR_COLON, 0)
    IN  /\ colon >= 1
        /\ \A i \in 1..colon : IsDigit(buf[i])
        /\ DigitsValue(buf, 0) > Len(buf) - (colon + 1)

-----------------------------------------------------------------------------
(* Properties of the codec *)

\* C1 (as claimed): encodeBencode does not depend on the order in which a
\* dictionary's properties were created, and it emits the (key, value) pairs
\* in ascending byte-wise order of the keys' bytes.
C1_OrderIndependentByteSorted ==
    (pc = "encoded" /\ value.type = "object") =>
        /\ \A es \in Reorderings(value.entries) : encodeBencode(Dict(es)) = bytes
        /\ LET keys == ByteSorted({value.entries[i].key : i \in 1..Len(value.entries)})
           IN  bytes = <<CHAR_d>>
                         \o Concat([i \in 1..Len(keys) |->
                                EncodeBytes(TextEncoderEncode(keys[i]))
                                    \o encodeBencode(Get(value.entries, keys[i]))])
                         \o <<CHAR_e>>

\* The first half of C1 alone: the order of creation does not show.
C1_OrderIndependent ==
    (pc = "encoded" /\ value.type = "object") =>
        \A es \in Reorderings(value.entries) : encodeBencode(Dict(es)) = bytes

\* C2 (as claimed): decoding what the encoder wrote for a well-formed tree
\* gives a structurally equal tree and consumes exactly the bytes written.
C2_DecodeOfEncodeIsIdentity ==
    pc = "redecoded" =>
        /\ result.ok
        /\ StructEq(result.value, value)
        /\ result.offset = Len(bytes)

\* C3 (as claimed): for a valid buffer, encoding what the decoder returned
\* gives the buffer with only its dictionary keys reordered ascending.
C3_EncodeOfDecodeIsCanonical ==
    (pc \in {"decoded", "reencoded"} /\ ValidBencode(data)) =>
        /\ result.ok
        /\ pc = "reencoded" => bytes = Canonicalize(data)

\* C4 (as claimed): a length-prefixed string with fewer bytes after the colon
\* than declared makes the decoder fail with the string error; it is never
\* answered with a shorter string.
C4_TruncatedStringFails ==
    (pc = "decoded" /\ IsTruncatedString(data)) =>
        /\ ~result.ok
        /\ result.error = "Invalid string encoding"

-----------------------------------------------------------------------------
(* Inputs of the extractor, the resolver and the generator *)

\* Tracker texts: 'u1', 'u:/2', 'a&b=c'.
TRACKER_1 == <<117, 49>>

TRACKER_2 == <<117, 58, 47, 50>>

TRACKER_3 == <<97, 38, 98, 61, 99>>

\* A key with its value, or nothing, for each choice of an optional entry.
Optional(key, values) == {<<>>} \cup {<<[key |-> key, val |-> v]>> : v \in values}

\* One file entry of info.files.
FileEntry(path, length) ==
    Dict(<<[key |-> KEY_path, val |-> List(path)], [key |-> KEY_length, val
        |-> Num(length)]>>)

\* info.name: 'a', '', '50%', 'a b'
InfoNames == {Bytes(<<97>>), Bytes(<<>>), Bytes(<<53, 48, 37>>), Bytes(<<97, 32, 98>>)}

InfoLengths == {Num(3), Num(0)}

InfoFiles ==
    {List(<<>>),
     List(<<FileEntry(<<Bytes(<<100>>), Bytes(<<102>>)>>, 2)>>),
     List(<<FileEntry(<<Bytes(<<102>>)>>, 2), FileEntry(<<Bytes(<<103>>)>>, 0),
            FileEntry(<<Bytes(<<104>>)>>, 1)>>)}

InfoValues ==
    {Dict(n \o l \o f) : n \in Optional(KEY_name, InfoNames),
                         l \in Optional(KEY_length, InfoLengths),
                         f \in Optional(KEY_files, InfoFiles)}
        \cup {Bytes(<<97>>), Num(1), List(<<>>)}

AnnounceValues == {Bytes(TRACKER_1), Bytes(<<>>)}

AnnounceListValues ==
    {List(<<>>),
     List(<<List(<<Bytes(TRACKER_1), Bytes(TRACKER_2)>>)>>),
     List(<<List(<<Bytes(TRACKER_3)>>), Bytes(TRACKER_1), List(<<Bytes(TRACKER_2)>>)>>)}

\* Decoded torrents, and values that are no torrent.
TorrentValues ==
    {Dict(a \o l \o i) : a \in Optional(KEY_announce, AnnounceValues),
                         l \in Optional(KEY_announce_list, AnnounceListValues),
                         i \in Optional(KEY_info, InfoValues)}
        \cup {Num(1), List(<<>>), Bytes(<<97>>)}

\* The files read: bencoded torrents, an empty file and a cut one.
TorrentInputs ==
    {encodeBencode(v) : v \in TorrentValues} \cup {<<>>, <<CHAR_d, 52, CHAR_COLON>>}

\* Forty hexadecimal digits in lower case.
LowerHash == [i \in 1..HASH_LEN |-> HexDigit((7 * i) % 16)]

ToUpperCase(s) ==
    [i \in 1..Len(s) |-> IF s[i] >= 97 /\ s[i] <= 122 THEN s[i] - 32 ELSE s[i]]

\* Candidates for an InfoHash: lower, upper and mixed case, one digit short,
\* one long, one with a 'g', and nothing.
HashTexts ==
    {LowerHash,
     ToUpperCase(LowerHash),
     SubSeq(LowerHash, 1, 10) \o ToUpperCase(SubSeq(LowerHash, 11, HASH_LEN)),
     SubSeq(LowerHash, 1, HASH_LEN - 1),
     LowerHash \o <<48>>,
     [LowerHash EXCEPT ![5] = 103],
     <<>>}

\* What precedes the hash in xt: 'urn:btih:', 'urn%3Abtih%3A', 'urn:sha1:',
\* 'URN:BTIH:' and nothing.
XtPrefixes == {URN_BTIH,
               <<117, 114, 110, 37, 51, 65, 98, 116, 105, 104, 37, 51, 65>>,
               <<117, 114, 110, 58, 115, 104, 97, 49, 58>>,
               <<85, 82, 78, 58, 66, 84, 73, 72, 58>>, <<>>}

XtParams ==
    {<<>>} \cup {PARAM_xt \o <<61>> \o p \o h : p \in XtPrefixes, h \in HashTexts}

\* dn: absent, 'dn=foo', 'dn=a%20b', 'dn=a+b', 'dn=100%25', 'dn=100%',
\* 'dn=100%2525', 'dn=%2541', 'dn=', 'dn=%25E0%25A4'
DnParams ==
    {<<>>, <<100, 110, 61, 102, 111, 111>>,
     <<100, 110, 61, 97, 37, 50, 48, 98>>, <<100, 110, 61, 97, 43, 98>>,
     <<100, 110, 61, 49, 48, 48, 37, 50, 53>>,
     <<100, 110, 61, 49, 48, 48, 37>>,
     <<100, 110, 61, 49, 48, 48, 37, 50, 53, 50, 53>>,
     <<100, 110, 61, 37, 50, 53, 52, 49>>, <<100, 110, 61>>,
     <<100, 110, 61, 37, 50, 53, 69, 48, 37, 50, 53, 65, 52>>}

\* tr: absent, 'tr=u1', 'tr=u1&tr=u1', 'tr=u1&tr=u%3A%2F2'
TrParams == {<<>>, <<116, 114, 61, 117, 49>>,
             <<116, 114, 61, 117, 49, 38, 116, 114, 61, 117, 49>>,
             <<116, 114, 61, 117, 49, 38, 116, 114, 61, 117, 37, 51, 65, 37,
                50, 70, 50>>}

\* 'magnet:?' and the parameters that are there, joined by '&'.
MagnetText(params) ==
    MAGNET \o <<63>> \o Join(SelectSeq(params, LAMBDA x : x # <<>>), <<38>>)

LowerXt == PARAM_xt \o <<61>> \o URN_BTIH \o LowerHash

ShortXt == PARAM_xt \o <<61>> \o URN_BTIH \o SubSeq(LowerHash, 1, HASH_LEN - 1)

\* The texts submitted: magnet links, bare hashes (with white space around
\* some), and texts that are neither.
TextInputs ==
    {MagnetText(<<x, d, r>>) : x \in XtParams, d \in DnParams, r \in TrParams}
        \cup {MagnetText(<<d, r, x>>) : x \in XtParams, d \in DnParams, r \in TrParams}
        \cup {MagnetText(<<LowerXt, ShortXt>>), MagnetText(<<ShortXt, LowerXt>>)}
        \cup HashTexts
        \cup {<<32>> \o h \o <<10>> : h \in HashTexts}
        \cup {<<32>> \o MagnetText(<<LowerXt>>) \o <<32>>, MAGNET, <<102, 111, 111>>,
              <<77, 65, 71, 78, 69, 84, 58>> \o <<63>> \o LowerXt}

\* customName: undefined, '', 'x', '100%', 'a&b=c+d e'
CustomNames ==
    {Undefined, Some(<<>>), Some(<<120>>), Some(<<49, 48, 48, 37>>),
     Some(<<97, 38, 98, 61, 99, 43, 100, 32, 101>>)}

\* customTrackers: undefined, none, one, two.
CustomTrackerLists ==
    {Undefined, Some(<<>>), Some(<<TRACKER_2>>), Some(<<TRACKER_3, TRACKER_1>>)}

\* A variant in which the name and the trackers used are stored in the
\* descriptor.
TorrentAfterGenerate_Stored(t, name, flag, trackers) ==
    [t EXCEPT !.name = LinkName(t, name),
              !.announce = Some(LinkTrackers(t, flag, trackers))]

\* The descriptor after generateMagnetLink(torrent, ...): the function reads
\* torrent.infoHash, torrent.name and torrent.announce, and assigns to none
\* of the descriptor's fields.
TorrentAfterGenerate(t, name, flag, trackers) == t

-----------------------------------------------------------------------------
(* The resolver and the generator as a state machine: a file or a text is    *)
(* parsed, a link is generated from the TorrentInstance, and the link is     *)
(* given to parseInput again.                                                *)

InitMagnet ==
    /\ \/ pc = "file" /\ data \in TorrentInputs /\ input = NONE
       \/ pc = "text" /\ input \in TextInputs /\ data = NONE
    /\ value = NONE /\ result = NONE /\ bytes = NONE
    /\ torrent = NONE /\ customName = NONE /\ addTrackers = NONE
    /\ customTrackers = NONE /\ magnetLink = NONE /\ reparsed = NONE
    /\ NoLoop /\ NoApp

\* parseTorrentFile: the file's bytes through parseBencodeBuffer.
ParseFile ==
    /\ pc = "file"
    /\ torrent' = parseBencodeBuffer(data)
    /\ pc' = "parsedFile"
    /\ UNCHANGED <<loopVars, appVars, codecVars, input, customName, addTrackers, customTrackers,
                   magnetLink, reparsed>>

\* parseInput on the text submitted.
ParseText ==
    /\ pc = "text"
    /\ torrent' = parseInput(input)
    /\ pc' = "parsedText"
    /\ UNCHANGED <<loopVars, appVars, codecVars, input, customName, addTrackers, customTrackers,
                   magnetLink, reparsed>>

\* generateMagnetLink on a TorrentInstance that was returned.
Generate ==
    /\ pc \in {"parsedFile", "parsedText"}
    /\ torrent.ok
    /\ \E name \in CustomNames, flag \in BOOLEAN, trackers \in CustomTrackerLists :
          /\ customName' = name
          /\ addTrackers' = flag
          /\ customTrackers' = trackers
          /\ magnetLink' = generateMagnetLink(torrent, name, flag, trackers)
          /\ torrent' = TorrentAfterGenerate(torrent, name, flag, trackers)
    /\ pc' = "generated"
    /\ UNCHANGED <<loopVars, appVars, codecVars, input, reparsed>>

\* parseInput on the link generated.
Reparse ==
    /\ pc = "generated"
    /\ magnetLink.ok
    /\ reparsed' = parseInput(magnetLink.link)
    /\ pc' = "reparsed"
    /\ UNCHANGED <<loopVars, appVars, codecVars, input, torrent, customName, addTrackers,
                   customTrackers, magnetLink>>

NextMagnet == ParseFile \/ ParseText \/ Generate \/ Reparse

SpecMagnet == InitMagnet /\ [][NextMagnet]_vars

-----------------------------------------------------------------------------
(* Reference notions the properties of the extractor, the resolver and the   *)
(* generator are stated with.                                                *)

\* The decoded file is a dictionary whose info is a dictionary with neither
\* 'length' nor 'files'.
InfoLacksLengthAndFiles(buffer) ==
    LET decoded == decodeBencode(buffer, 0)
    IN  /\ decoded.ok
        /\ decoded.value.type = "object"
        /\ HasKey(decoded.value.entries, KEY_info)
        /\ LET info == Get(decoded.value.entries, KEY_info)
           IN  /\ info.type = "object"
               /\ ~HasKey(info.entries, KEY_length)
               /\ ~HasKey(info.entries, KEY_files)

\* The text is a magnet link once trimmed.
IsMagnetText(text) == StartsWith(Trim(text), MAGNET)

\* The decoded values of the link's parameter of that name, in order.
ParamValues(text, name) == GetAll(MagnetParams(Trim(text)), name)

\* The values of the link's parameter of that name as they are written in
\* the link, in order.
RawValues(text, name) ==
    LET pieces == Split(Tail(URLSearch(Trim(text))), 38)
        named == SelectSeq(pieces, LAMBDA x : StartsWith(x, name \o <<61>>))
    IN  [i \in 1..Len(named) |-> Slice(named[i], Len(name) + 1, Len(named[i]))]

\* 'urn:btih:' and exactly forty hexadecimal digits.
IsBtihUrn(xt) ==
    /\ StartsWith(xt, URN_BTIH)
    /\ Len(xt) = Len(URN_BTIH) + HASH_LEN
    /\ \A i \in (Len(URN_BTIH) + 1)..Len(xt) : IsHexDigit(xt[i])

\* The text holds a % that starts no %XY.
HasMalformedEscape(s) == \E k \in 1..Len(s) : s[k] = 37 /\ ~IsEscapeAt(s, k)

\* The link's first xt is an InfoHash urn.
HasValidXt(text) ==
    /\ IsMagnetText(text)
    /\ ParamValues(text, PARAM_xt) # <<>>
    /\ IsBtihUrn(ParamValues(text, PARAM_xt)[1])

\* The name a link is to carry: the custom name, else the descriptor's; none
\* when both are missing or empty.
NameGiven(t, name) ==
    IF IsDefined(name) /\ The(name) # <<>> THEN name
    ELSE IF IsDefined(t.name) /\ The(t.name) # <<>> THEN t.name
    ELSE Undefined

\* The trackers a link is to carry: the descriptor's when it has any, else
\* the caller's when the flag is set, else none.
PolicyTrackers(t, flag, trackers) ==
    IF IsDefined(t.announce) /\ The(t.announce) # <<>> THEN The(t.announce)
    ELSE IF flag /\ IsDefined(trackers) THEN The(trackers)
    ELSE <<>>

\* The values of the tr parameters written in a generated link, in order.
EmittedTr(link) ==
    LET pieces == Split(link, 38)
        named == SelectSeq(pieces, LAMBDA x : StartsWith(x, PARAM_tr \o <<61>>))
    IN  [i \in 1..Len(named) |-> Slice(named[i], Len(PARAM_tr) + 1, Len(named[i]))]

-----------------------------------------------------------------------------
(* Properties of the extractor, the resolver and the generator *)

\* C5 (as claimed): a torrent whose info dictionary has neither 'length' nor
\* 'files' is not extracted: parseBencodeBuffer fails on it.
C5_InfoWithoutLengthOrFilesFails ==
    (pc = "parsedFile" /\ InfoLacksLengthAndFiles(data)) => ~torrent.ok

\* C6 (as claimed): the link generated from a descriptor parses again, to the
\* same infoHash, to the name that was written into it, and to the trackers
\* that were written into it, in their order.
C6_MagnetRoundTrip ==
    pc = "reparsed" =>
        /\ reparsed.ok
        /\ reparsed.infoHash = torrent.infoHash
        /\ IsDefined(NameGiven(torrent, customName))
              => reparsed.name = NameGiven(torrent, customName)
        /\ PolicyTrackers(torrent, addTrackers, customTrackers) # <<>>
              => reparsed.announce
                   = Some(PolicyTrackers(torrent, addTrackers, customTrackers))

C8_NoXtRejected ==
    (pc = "parsedText" /\ IsMagnetText(input)
        /\ ParamValues(input, PARAM_xt) = <<>>)
        => torrent = Throw("Invalid magnet link format: missing valid InfoHash")

\* 'magnet:?dn=foo' was parsed and rejected.
C8_Witness ==
    /\ pc = "parsedText"
    /\ input = MagnetText(<<<<100, 110, 61, 102, 111, 111>>>>)
    /\ ~torrent.ok

\* C9: a magnet link is accepted only if its xt is 'urn:btih:' and exactly
\* forty hexadecimal digits of either case, and the infoHash returned is
\* those digits in lower case.
C9_XtAcceptedOnlyIfBtih40Hex ==
    (pc = "parsedText" /\ IsMagnetText(input) /\ torrent.ok)
        => /\ HasValidXt(input)
           /\ LET xt == ParamValues(input, PARAM_xt)[1]
              IN  /\ torrent.infoHash
                       = ToLowerCase(SubSeq(xt, Len(URN_BTIH) + 1, Len(xt)))
                  /\ \A i \in 1..HASH_LEN :
                        IsDigit(torrent.infoHash[i])
                           \/ (torrent.infoHash[i] >= 97 /\ torrent.infoHash[i] <= 102)

\* A link whose xt has upper-case digits was accepted.
C9_Witness ==
    /\ pc = "parsedText"
    /\ IsMagnetText(input)
    /\ torrent.ok
    /\ LET xt == ParamValues(input, PARAM_xt)[1]
       IN  \E i \in 1..Len(xt) : xt[i] >= 65 /\ xt[i] <= 70

\* C10 (as claimed): a link with a valid xt whose dn cannot be
\* percent-decoded is parsed all the same, and its name is the dn as written.
C10_MalformedNameFallsBack ==
    (pc = "parsedText" /\ HasValidXt(input)
        /\ RawValues(input, PARAM_dn) # <<>>
        /\ HasMalformedEscape(RawValues(input, PARAM_dn)[1]))
        => /\ torrent.ok
           /\ torrent.name = Some(RawValues(input, PARAM_dn)[1])

-----------------------------------------------------------------------------
(* Properties of parseInput *)

\* Forty hexadecimal digits, none of them an upper-case letter.
IsLowerHash(s) ==
    /\ Len(s) = HASH_LEN
    /\ \A i \in 1..Len(s) : IsDigit(s[i]) \/ (s[i] >= 97 /\ s[i] <= 102)

\* The descriptor has no tracker.
NoTrackers(t) == ~IsDefined(t.announce) \/ The(t.announce) = <<>>

\* C11: a text of forty hexadecimal digits and the same text in upper case
\* are both resolved, to the same lower-case infoHash, without a name and
\* without trackers.
C11_HashCaseInsensitive ==
    (pc = "parsedText" /\ IsInfoHashText(input)) =>
        LET upper == parseInput(ToUpperCase(input))
        IN  /\ torrent.ok
            /\ upper.ok
            /\ torrent.infoHash = upper.infoHash
            /\ IsLowerHash(torrent.infoHash)
            /\ ~IsDefined(torrent.name) /\ ~IsDefined(upper.name)
            /\ NoTrackers(torrent) /\ NoTrackers(upper)

\* A hash typed in mixed case was resolved.
C11_Witness ==
    /\ pc = "parsedText"
    /\ IsInfoHashText(input)
    /\ input # ToUpperCase(input)
    /\ input # ToLowerCase(input)
    /\ torrent.ok

\* C12: the text is trimmed; what then starts with 'magnet:' gets the magnet
\* parser's outcome, what is forty hexadecimal digits gets a descriptor with
\* the lowered hash and nothing else, and every other text is refused as an
\* invalid input format.
C12_TrimThenDispatch ==
    pc = "parsedText" =>
        LET trimmed == Trim(input)
        IN  IF StartsWith(trimmed, MAGNET) THEN torrent = parseMagnetLink(trimmed)
            ELSE IF IsInfoHashText(trimmed)
            THEN /\ torrent.ok
                 /\ torrent.infoHash = ToLowerCase(trimmed)
                 /\ ~IsDefined(torrent.name)
                 /\ NoTrackers(torrent)
                 /\ ~IsDefined(torrent.files)
                 /\ ~IsDefined(torrent.length)
            ELSE torrent = Throw("Invalid input format")

\* A hash with white space around it was resolved.
C12_Witness ==
    /\ pc = "parsedText"
    /\ input # Trim(input)
    /\ IsInfoHashText(Trim(input))
    /\ torrent.ok

-----------------------------------------------------------------------------
(* Properties of the descriptors returned *)

\* The decoded file is a dictionary whose info is a dictionary.
HasInfoDictionary(buffer) ==
    LET decoded == decodeBencode(buffer, 0)
    IN  /\ decoded.ok
        /\ decoded.value.type = "object"
        /\ HasKey(decoded.value.entries, KEY_info)
        /\ Get(decoded.value.entries, KEY_info).type = "object"

\* Outer fields a torrent file may have next to its info: none, an announce,
\* an announce-list, a 'comment', and the three together.
OuterFields ==
    LET announce == <<[key |-> KEY_announce, val |-> Bytes(TRACKER_2)]>>
        list == <<[key |-> KEY_announce_list,
                   val |-> List(<<List(<<Bytes(TRACKER_3)>>)>>)]>>
        comment == <<[key |-> <<99, 111, 109, 109, 101, 110, 116>>,
                      val |-> Bytes(<<120>>)]>>
    IN  {<<>>, announce, list, comment, announce \o list \o comment}

\* The files that have the info of that file and other outer fields.
FilesWithSameInfo(buffer) ==
    LET info == Get(decodeBencode(buffer, 0).value.entries, KEY_info)
    IN  {encodeBencode(Dict(outer \o <<[key |-> KEY_info, val |-> info]>>)) :
            outer \in OuterFields}

C14_InfoHashIsLowerHex ==
    /\ (pc \in {"parsedFile", "parsedText"} /\ torrent.ok)
          => IsLowerHash(torrent.infoHash)
    /\ (pc = "reparsed" /\ reparsed.ok) => IsLowerHash(reparsed.infoHash)

\* A file was extracted and its infoHash has a letter.
C14_Witness ==
    /\ pc = "parsedFile"
    /\ torrent.ok
    /\ \E i \in 1..Len(torrent.infoHash) : torrent.infoHash[i] >= 97

\* No text is there twice.
NoDuplicates(list) ==
    \A i, j \in 1..Len(list) : list[i] = list[j] => i = j

RECURSIVE FirstOccurrences(_, _)
\* The texts of list that are not in seen, each at its first place.
FirstOccurrences(list, seen) ==
    IF list = <<>> THEN <<>>
    ELSE IF \E i \in 1..Len(seen) : seen[i] = Head(list)
    THEN FirstOccurrences(Tail(list), seen)
    ELSE <<Head(list)>> \o FirstOccurrences(Tail(list), Append(seen, Head(list)))

\* C15 (as claimed): the trackers of a descriptor returned hold no text
\* twice, and those of a magnet link are its tr values at their first
\* occurrences, in order.
C15_TrackersAreDistinct ==
    (pc \in {"parsedFile", "parsedText"} /\ torrent.ok /\ IsDefined(torrent.announce))
        => /\ NoDuplicates(The(torrent.announce))
           /\ (pc = "parsedText" /\ IsMagnetText(input))
                 => The(torrent.announce)
                      = FirstOccurrences(ParamValues(input, PARAM_tr), <<>>)

\* C16 (as claimed): a descriptor extracted from a file has files and a total
\* length, or neither.
C16_FilesAndLengthTogether ==
    (pc = "parsedFile" /\ HasInfoDictionary(data) /\ torrent.ok)
        => (IsDefined(torrent.files) <=> IsDefined(torrent.length))

\* The entry of info.files is a dictionary with a path, a list of byte
\* strings, and a length, a number that is not negative.
IsFileEntry(file) ==
    /\ file.type = "object"
    /\ HasKey(file.entries, KEY_path)
    /\ HasKey(file.entries, KEY_length)
    /\ Get(file.entries, KEY_path).type = "Array"
    /\ \A i \in 1..Len(Get(file.entries, KEY_path).items) :
          Get(file.entries, KEY_path).items[i].type = "Uint8Array"
    /\ IsInt(Get(file.entries, KEY_length))
    /\ Get(file.entries, KEY_length).int >= 0

\* The file is a multi-file torrent: its info has files, a list of entries
\* that is not empty.
IsMultiFile(buffer) ==
    /\ HasInfoDictionary(buffer)
    /\ LET info == Get(decodeBencode(buffer, 0).value.entries, KEY_info)
       IN  /\ HasKey(info.entries, KEY_files)
           /\ Get(info.entries, KEY_files).type = "Array"
           /\ Get(info.entries, KEY_files).items # <<>>
           /\ \A i \in 1..Len(Get(info.entries, KEY_files).items) :
                 IsFileEntry(Get(info.entries, KEY_files).items[i])

\* info.files of a multi-file torrent.
FileEntries(buffer) ==
    Get(Get(decodeBencode(buffer, 0).value.entries, KEY_info).entries, KEY_files).items

\* The path of an entry: its segments as text, joined by '/'.
EntryPath(file) ==
    LET parts == Get(file.entries, KEY_path).items
    IN  Join([i \in 1..Len(parts) |-> TextDecoderDecode(parts[i].bytes)], <<47>>)

RECURSIVE SumOfLengths(_)
SumOfLengths(entries) ==
    IF entries = <<>> THEN 0
    ELSE Get(Head(entries).entries, KEY_length).int + SumOfLengths(Tail(entries))

\* C17 (as claimed): the files of a multi-file torrent's descriptor are the
\* entries of info.files, one for one and in order, each with its joined path
\* and its length, and the total length is the sum of the lengths.
C17_OneFilePerEntry ==
    (pc = "parsedFile" /\ IsMultiFile(data)) =>
        /\ torrent.ok
        /\ torrent.files
             = Some([i \in 1..Len(FileEntries(data)) |->
                        [path |-> EntryPath(FileEntries(data)[i]),
                         length |-> Get(FileEntries(data)[i].entries, KEY_length).int]])
        /\ torrent.length = Some(SumOfLengths(FileEntries(data)))

\* The outer dictionary of a decoded file.
OuterOf(buffer) == decodeBencode(buffer, 0).value.entries

\* The tracker fields of the file are as they are meant: announce, if there,
\* is a byte string, and announce-list, if there, a list of lists of byte
\* strings.
HasTrackerFields(buffer) ==
    /\ HasInfoDictionary(buffer)
    /\ HasKey(OuterOf(buffer), KEY_announce)
          => Get(OuterOf(buffer), KEY_announce).type = "Uint8Array"
    /\ HasKey(OuterOf(buffer), KEY_announce_list)
          => /\ Get(OuterOf(buffer), KEY_announce_list).type = "Array"
             /\ \A i \in 1..Len(Get(OuterOf(buffer), KEY_announce_list).items) :
                   LET group == Get(OuterOf(buffer), KEY_announce_list).items[i]
                   IN  /\ group.type = "Array"
                       /\ \A j \in 1..Len(group.items) :
                             group.items[j].type = "Uint8Array"

\* The announce of the file as a list: empty when it is absent or empty.
MainTracker(buffer) ==
    IF HasKey(OuterOf(buffer), KEY_announce)
       /\ Get(OuterOf(buffer), KEY_announce).bytes # <<>>
    THEN <<TextDecoderDecode(Get(OuterOf(buffer), KEY_announce).bytes)>>
    ELSE <<>>

\* The URIs of the file's announce-list, group after group.
ListedTrackers(buffer) ==
    IF HasKey(OuterOf(buffer), KEY_announce_list)
    THEN LET groups == Get(OuterOf(buffer), KEY_announce_list).items
         IN  Concat([i \in 1..Len(groups) |->
                        [j \in 1..Len(groups[i].items) |->
                            TextDecoderDecode(groups[i].items[j].bytes)]])
    ELSE <<>>

\* C18 (as claimed): the trackers extracted are the announce, then the URIs
\* of announce-list in order, each once; a file whose two fields are absent
\* or empty is extracted all the same, without trackers.
C18_TrackersCollected ==
    (pc = "parsedFile" /\ HasTrackerFields(data)) =>
        /\ torrent.ok
        /\ LET expected ==
                   FirstOccurrences(MainTracker(data) \o ListedTrackers(data), <<>>)
           IN  IF expected = <<>> THEN NoTrackers(torrent)
               ELSE torrent.announce = Some(expected)

\* C19 (as claimed): a decoded file that is no dictionary, has no info, or
\* has an info that is no dictionary is not extracted.
C19_InfoMustBeDictionary ==
    (pc = "parsedFile" /\ decodeBencode(data, 0).ok /\ ~HasInfoDictionary(data))
        => ~torrent.ok

\* C20 (as claimed): when a file is not resolved, the failure the caller
\* gets is the one that was raised where the decoding or the extraction
\* failed.
C20_FailureUnchanged ==
    (pc = "parsedFile" /\ ~torrent.ok) => torrent = ExtractTorrent(data)

\* The parameters written in a generated link after the xt parameter, in
\* order: the pieces between the ampersands.
EmittedParams(link) == Tail(Split(link, 38))

\* C21: a generated link starts with magnet:?xt=urn:btih: and the infoHash;
\* its name is the caller's when the caller gave one and the descriptor's
\* otherwise; a dn parameter with that name, percent-encoded, comes right
\* after xt when there is such a name, and every parameter after it is a tr;
\* without a name every parameter after xt is a tr.
C21_NameOverrideAndPlace ==
    pc = "generated" =>
        /\ magnetLink.ok
        /\ LET given == NameGiven(torrent, customName)
               params == EmittedParams(magnetLink.link)
               rest == IF IsDefined(given) THEN Tail(params) ELSE params
           IN  /\ Split(magnetLink.link, 38)[1]
                    = MAGNET \o <<63>> \o PARAM_xt \o <<61>> \o URN_BTIH
                        \o torrent.infoHash
               /\ IsDefined(given) =>
                    /\ params # <<>>
                    /\ params[1] = PARAM_dn \o <<61>>
                                     \o encodeURIComponent(The(given)).str
               /\ \A i \in 1..Len(rest) : StartsWith(rest[i], PARAM_tr \o <<61>>)

\* A link was generated with a caller's name from a descriptor that has a
\* name of its own and trackers: dn carries the caller's name, before the tr.
C21_Witness ==
    /\ pc = "generated"
    /\ magnetLink.ok
    /\ IsDefined(customName) /\ The(customName) # <<>>
    /\ IsDefined(torrent.name) /\ The(torrent.name) # <<>>
    /\ torrent.name # customName
    /\ Len(EmittedParams(magnetLink.link)) > 1
    /\ EmittedParams(magnetLink.link)[1]
         = PARAM_dn \o <<61>> \o encodeURIComponent(The(customName)).str

\* C27: a call of generateMagnetLink leaves the descriptor it was given as it
\* was: infoHash, name, trackers, files and length are the same after it.
C27_GenerateLeavesDescriptor ==
    [][pc' = "generated" =>
          /\ torrent'.infoHash = torrent.infoHash
          /\ torrent'.name = torrent.name
          /\ torrent'.announce = torrent.announce
          /\ torrent'.files = torrent.files
          /\ torrent'.length = torrent.length]_vars

\* A link was generated with a caller's name and the caller's trackers from
\* a descriptor of a file that has neither a name nor trackers.
C27_Witness ==
    /\ pc = "generated"
    /\ magnetLink.ok
    /\ IsDefined(customName) /\ The(customName) # <<>>
    /\ addTrackers /\ IsDefined(customTrackers) /\ The(customTrackers) # <<>>
    /\ IsDefined(torrent.files)
    /\ ~IsDefined(NameGiven(torrent, Undefined))
    /\ NoTrackers(torrent)
    /\ EmittedTr(magnetLink.link) # <<>>

-----------------------------------------------------------------------------
(* Properties of the decoder's failures, offsets and loops *)

\* The value returned is a list or a dictionary.
IsContainer(v) == v.type \in {"Array", "object"}

\* C23 (as claimed): a list or a dictionary whose input ends before its
\* terminating 'e' is not decoded: whenever the decoder returns a container,
\* the byte before the offset returned is the container's 'e'.
C23_UnterminatedContainerFails ==
    (pc = "decoded" /\ result.ok /\ IsContainer(result.value)) =>
        /\ result.offset <= Len(data)
        /\ data[result.offset] = CHAR_e

\* An optional '-' and one digit or more.
IsSignedDecimal(t) ==
    LET d == IF t # <<>> /\ Head(t) = 45 THEN Tail(t) ELSE t
    IN  d # <<>> /\ \A i \in 1..Len(d) : IsDigit(d[i])

\* The bytes between the 'i' at the start of the buffer and the first 'e'.
IntegerBody(buf) == Slice(buf, 1, IndexOf(buf, CHAR_e, 1))

\* C24 (as claimed): decoding at an 'i' fails when no 'e' follows or when the
\* bytes between 'i' and 'e' are no signed decimal; when it succeeds the
\* value is an integer, never NaN.
C24_MalformedIntegerFails ==
    (pc = "decoded" /\ data # <<>> /\ data[1] = 105) =>
        /\ (IndexOf(data, CHAR_e, 1) = -1 \/ ~IsSignedDecimal(IntegerBody(data)))
              => ~result.ok
        /\ result.ok => result.value = parseInt(IntegerBody(data))
                          /\ result.value # NaN

\* C25 (as claimed): wherever in a buffer decodeBencode succeeds, the offset
\* it returns is past the offset it was given and not past the end of the
\* buffer.
C25_OffsetPastValueWithinBuffer ==
    pc = "decoded" =>
        \A offset \in 0..Len(data) :
            LET r == decodeBencode(data, offset)
            IN  r.ok => r.offset > offset /\ r.offset <= Len(data)

-----------------------------------------------------------------------------
(* decodeBencode(data) step by step: the call, then one step for each        *)
(* iteration of the while loop of its list or dictionary branch.  The values *)
(* inside the container are decoded by the recursive calls, as in the code.  *)

\* A variant of the loop's last assignment that leaves pos where it was.
NextPos_Stale(p, res) == p

\* pos = result.offset; pos = valueResult.offset
NextPos(p, res) == res.offset

\* while (pos < data.length && data[pos] !== 101)
LoopContinues(buf, p) == p < Len(buf) /\ buf[p + 1] # CHAR_e

InitLoop ==
    /\ pc = "call"
    /\ data \in DecodeInputs
    /\ value = NONE /\ result = NONE /\ bytes = NONE
    /\ input = NONE /\ torrent = NONE /\ customName = NONE
    /\ addTrackers = NONE /\ customTrackers = NONE /\ magnetLink = NONE
    /\ reparsed = NONE
    /\ NoLoop /\ NoApp

\* The call up to the first test of a loop; an integer, a string or an
\* unknown first byte ends the call at once.
Call ==
    /\ pc = "call"
    /\ LET char == IF 0 < Len(data) THEN data[1] ELSE 0
       IN  IF char \in {CHAR_l, CHAR_d}
           THEN /\ pc' = IF char = CHAR_l THEN "list" ELSE "dict"
                /\ loopPos' = 1
                /\ loopValue' = <<>>
                /\ UNCHANGED result
           ELSE \E res \in {decodeBencode(data, 0)} :
                    /\ pc' = IF res.ok THEN "returned" ELSE "thrown"
                    /\ result' = res
                    /\ UNCHANGED loopVars
    /\ UNCHANGED <<data, value, bytes, magnetVars, appVars>>

\* One iteration of the list branch's loop.
ListStep ==
    /\ pc = "list"
    /\ LoopContinues(data, loopPos)
    /\ \E res \in {decodeBencode(data, loopPos)} :
           IF ~res.ok
           THEN pc' = "thrown" /\ result' = res /\ UNCHANGED loopVars
           ELSE /\ loopValue' = Append(loopValue, res.value)
                /\ loopPos' = NextPos(loopPos, res)
                /\ UNCHANGED <<pc, result>>
    /\ UNCHANGED <<data, value, bytes, magnetVars, appVars>>

\* The list branch's loop is left: return { value: list, offset: pos + 1 }.
ListReturn ==
    /\ pc = "list"
    /\ ~LoopContinues(data, loopPos)
    /\ result' = Return(List(loopValue), loopPos + 1)
    /\ pc' = "returned"
    /\ UNCHANGED <<data, value, bytes, magnetVars, loopVars, appVars>>

\* The rest of an iteration of the dictionary branch's loop once the key is
\* decoded.
DictStepValue(keyResult) ==
    \E valueResult \in {decodeBencode(data, keyResult.offset)} :
        IF ~valueResult.ok
        THEN pc' = "thrown" /\ result' = valueResult /\ UNCHANGED loopVars
        ELSE IF keyResult.value.type # "Uint8Array"
        THEN pc' = "thrown" /\ result' = Throw("TypeError")
               /\ UNCHANGED loopVars
        ELSE /\ loopValue' = DictSet(loopValue,
                                     TextDecoderDecode(keyResult.value.bytes),
                                     valueResult.value)
             /\ loopPos' = NextPos(loopPos, valueResult)
             /\ UNCHANGED <<pc, result>>

\* One iteration of the dictionary branch's loop.
DictStep ==
    /\ pc = "dict"
    /\ LoopContinues(data, loopPos)
    /\ \E keyResult \in {decodeBencode(data, loopPos)} :
           IF ~keyResult.ok
           THEN pc' = "thrown" /\ result' = keyResult /\ UNCHANGED loopVars
           ELSE DictStepValue(keyResult)
    /\ UNCHANGED <<data, value, bytes, magnetVars, appVars>>

\* The dictionary branch's loop is left.
DictReturn ==
    /\ pc = "dict"
    /\ ~LoopContinues(data, loopPos)
    /\ result' = Return(Dict(loopValue), loopPos + 1)
    /\ pc' = "returned"
    /\ UNCHANGED <<data, value, bytes, magnetVars, loopVars, appVars>>

NextLoop == Call \/ ListStep \/ ListReturn \/ DictStep \/ DictReturn

\* A step of the call is possible: NextLoop is enabled.
Running == pc \in {"call", "list", "dict"}

\* The call is one run of sequential code: while a step is possible, it is
\* taken.  This is WF_vars(NextLoop), with Running written for
\* ENABLED <<NextLoop>>_vars and, as every step is a step of NextLoop,
\* <<TRUE>>_vars for <<NextLoop>>_vars.
FairLoop == []<>(~Running) \/ []<><<TRUE>>_vars

SpecLoop == InitLoop /\ [][NextLoop]_vars /\ FairLoop

\* C26: decodeBencode terminates on every buffer: each iteration of the list
\* loop and of the dictionary loop leaves pos greater than it was, every call
\* comes to its return or its throw, and with what decodeBencode(data, 0) is.
C26_DecoderTerminates ==
    /\ [][(pc \in {"list", "dict"} /\ pc' = pc) => loopPos' > loopPos]_vars
    /\ [](pc \in {"returned", "thrown"} => result = decodeBencode(data, 0))
    /\ <>(pc \in {"returned", "thrown"})

\* A dictionary loop ran twice, once over a nested container, and the call
\* returned.
C26_Witness ==
    /\ pc = "returned"
    /\ result.value.type = "object"
    /\ loopPos > 1
    /\ Len(result.value.entries) >= 2
    /\ \E i \in 1..Len(result.value.entries) :
           IsContainer(result.value.entries[i].val)

-----------------------------------------------------------------------------
(* JSON.stringify and JSON.parse of the history, an array of MagnetRecords.  *)
(* The brackets, braces, commas and member names of the text are kept as     *)
(* structure; each member's string is written and read as its JSON text.     *)

\* \uXXXX of a code unit.
UnicodeEscape(c) ==
    <<92, 117, HexDigit(c \div 4096), HexDigit((c \div 256) % 16),
      HexDigit((c \div 16) % 16), HexDigit(c % 16)>>

\* A variant of the quoting in which no code unit is escaped.
JSONEscape_Raw(s, i) == <<s[i]>>

\* QuoteJSONString for the code unit at i: the short escapes, \u00XX for the
\* other control characters, \uXXXX for an unpaired surrogate.
JSONEscape(s, i) ==
    LET c == s[i]
    IN  IF c = 8 THEN <<92, 98>>
        ELSE IF c = 9 THEN <<92, 116>>
        ELSE IF c = 10 THEN <<92, 110>>
        ELSE IF c = 12 THEN <<92, 102>>
        ELSE IF c = 13 THEN <<92, 114>>
        ELSE IF c = 34 THEN <<92, 34>>
        ELSE IF c = 92 THEN <<92, 92>>
        ELSE IF c < 32 THEN UnicodeEscape(c)
        ELSE IF IsHighSurrogate(c) /\ ~(i < Len(s) /\ IsLowSurrogate(s[i + 1]))
        THEN UnicodeEscape(c)
        ELSE IF IsLowSurrogate(c) /\ ~(i > 1 /\ IsHighSurrogate(s[i - 1]))
        THEN UnicodeEscape(c)
        ELSE <<c>>

\* Some code unit of the string may have to be escaped.
MayNeedEscape(s) ==
    \E i \in 1..Len(s) :
        s[i] < 32 \/ s[i] \in {34, 92} \/ (s[i] >= 55296 /\ s[i] <= 57343)

\* JSON.stringify of a string.
QuoteJSONString(s) ==
    <<34>>
        \o (IF MayNeedEscape(s) THEN Concat([i \in 1..Len(s) |-> JSONEscape(s, i)])
            ELSE s)
        \o <<34>>

\* The number of backslashes right before index i.
BackslashesBefore(b, i) ==
    CHOOSE k \in 0..(i - 1) :
        /\ \A j \in 1..k : b[i - j] = 92
        /\ (k = i - 1 \/ b[i - k - 1] # 92)

\* A backslash that begins an escape: one that no backslash before it escapes.
IsEscapeStart(b, i) ==
    i >= 1 /\ i <= Len(b) /\ b[i] = 92 /\ BackslashesBefore(b, i) % 2 = 0

\* The code unit at i belongs to an escape that began before it.
InsideEscape(b, i) ==
    \/ IsEscapeStart(b, i - 1)
    \/ \E k \in 2..5 : i - k >= 1 /\ b[i - k + 1] = 117 /\ IsEscapeStart(b, i - k)

\* The escape that begins at i is one of JSON's.
ValidEscape(b, i) ==
    /\ i < Len(b)
    /\ \/ b[i + 1] \in {34, 92, 47, 98, 102, 110, 114, 116}
       \/ /\ b[i + 1] = 117
          /\ i + 5 <= Len(b)
          /\ \A k \in 2..5 : IsHexDigit(b[i + k])

\* The code unit the escape that begins at i stands for.
Unescaped(b, i) ==
    LET c == b[i + 1]
    IN  IF c = 98 THEN 8
        ELSE IF c = 116 THEN 9
        ELSE IF c = 110 THEN 10
        ELSE IF c = 102 THEN 12
        ELSE IF c = 114 THEN 13
        ELSE IF c = 117
        THEN 4096 * HexValue(b[i + 2]) + 256 * HexValue(b[i + 3])
               + 16 * HexValue(b[i + 4]) + HexValue(b[i + 5])
        ELSE c

\* JSON.parse of a string's text that holds a backslash.
ParseEscapedString(b) ==
    IF \E i \in 1..Len(b) :
          /\ ~InsideEscape(b, i)
          /\ IF b[i] = 92 THEN ~ValidEscape(b, i) ELSE b[i] < 32 \/ b[i] = 34
    THEN Throw("SyntaxError")
    ELSE [ok |-> TRUE,
          str |-> Concat([i \in 1..Len(b) |->
                     IF InsideEscape(b, i) THEN <<>>
                     ELSE IF b[i] = 92 THEN <<Unescaped(b, i)>>
                     ELSE <<b[i]>>])]

\* JSON.parse of a string's text: the string, or the SyntaxError.
ParseJSONString(t) ==
    IF Len(t) < 2 \/ t[1] # 34 \/ t[Len(t)] # 34 THEN Throw("SyntaxError")
    ELSE IF \E i \in 2..(Len(t) - 1) : t[i] = 92
    THEN ParseEscapedString(Slice(t, 1, Len(t) - 1))
    ELSE IF \E i \in 2..(Len(t) - 1) : t[i] < 32 \/ t[i] = 34
    THEN Throw("SyntaxError")
    ELSE [ok |-> TRUE, str |-> Slice(t, 1, Len(t) - 1)]

\* A MagnetRecord.  Its id and createdAt, readings of the clock that no
\* handler reads again, are left out.
MagnetRecord(link, source, name, infoHash) ==
    [magnetLink |-> link, source |-> source, name |-> name, infoHash |-> infoHash]

\* JSON.stringify(history)
JSONStringify(h) ==
    [array |-> [i \in 1..Len(h) |->
        MagnetRecord(QuoteJSONString(h[i].magnetLink),
                     QuoteJSONString(h[i].source),
                     QuoteJSONString(h[i].name),
                     QuoteJSONString(h[i].infoHash))]]

\* JSON.parse of one written record: the record, or the SyntaxError.
ParseRecord(written) ==
    LET link == ParseJSONString(written.magnetLink)
        source == ParseJSONString(written.source)
        name == ParseJSONString(written.name)
        infoHash == ParseJSONString(written.infoHash)
    IN  IF link.ok /\ source.ok /\ name.ok /\ infoHash.ok
        THEN [ok |-> TRUE,
              value |-> MagnetRecord(link.str, source.str, name.str, infoHash.str)]
        ELSE Throw("SyntaxError")

\* JSON.parse(saved): the array, or the SyntaxError.
JSONParse(text) ==
    IF "array" \notin DOMAIN text THEN Throw("SyntaxError")
    ELSE LET records == [i \in 1..Len(text.array) |-> ParseRecord(text.array[i])]
         IN  IF \E i \in 1..Len(records) : ~records[i].ok
             THEN Throw("SyntaxError")
             ELSE [ok |-> TRUE,
                   value |-> [i \in 1..Len(records) |-> records[i].value]]

\* storageUtils.saveHistory(history): the item after setItem.
saveHistory(h) == Some(JSONStringify(h))

\* storageUtils.loadHistory() for the item stored; no item reads null.
loadHistory(item) ==
    IF ~IsDefined(item) THEN <<>>
    ELSE LET parsed == JSONParse(The(item))
         IN  IF parsed.ok THEN parsed.value ELSE <<>>

-----------------------------------------------------------------------------
(* The application: App with its history, InfoHashInput and TorrentUploader. *)
(* A handler is one step.  processTorrentFile is two: up to its await, and   *)
(* from the await on, with the onMagnetGenerated of the render in which it   *)
(* was called.  React renders after a handler has set state; the effects of  *)
(* the render are the step Render, taken before the user acts again.         *)

\* .slice(0, 50)
HISTORY_LIMIT == 50

\* 'Unnamed'
UNNAMED == <<85, 110, 110, 97, 109, 101, 100>>

SOURCE_file == <<102, 105, 108, 101>>

SOURCE_input == <<105, 110, 112, 117, 116>>

\* '.torrent'
TORRENT_SUFFIX == <<46, 116, 111, 114, 114, 101, 110, 116>>

\* String.prototype.endsWith
EndsWith(s, suffix) ==
    Len(s) >= Len(suffix) /\ SubSeq(s, Len(s) - Len(suffix) + 1, Len(s)) = suffix

\* The record handleMagnetGenerated makes: name || 'Unnamed'.
NewRecord(link, source, infoHash, name) ==
    MagnetRecord(link, source,
                 IF IsDefined(name) /\ The(name) # <<>> THEN The(name) ELSE UNNAMED,
                 infoHash)

\* A variant that keeps the records of the same infoHash.
UpdatedHistory_Unfiltered(h, newRecord) ==
    Slice(<<newRecord>> \o h, 0, HISTORY_LIMIT)

\* [newRecord, ...history.filter(record => record.infoHash !== infoHash)]
\*     .slice(0, 50)
UpdatedHistory(h, newRecord) ==
    Slice(<<newRecord>>
              \o SelectSeq(h, LAMBDA record : record.infoHash # newRecord.infoHash),
          0, HISTORY_LIMIT)

\* handleMagnetGenerated(link, source, infoHash, name) of a render whose
\* history was h: the link is shown, the record is put first, the history is
\* set and saved.
handleMagnetGenerated(h, link, source, infoHash, name) ==
    /\ magnetLink' = link
    /\ currentInfoHash' = infoHash
    /\ \E updatedHistory \in
             {UpdatedHistory(h, NewRecord(link, source, infoHash, name))} :
          /\ history' = updatedHistory
          /\ storage' = saveHistory(updatedHistory)
    /\ effect' = TRUE

\* The trackers a component hands to generateMagnetLink.
SelectedTrackers == IF addTrackers THEN customTrackers ELSE <<>>

\* A || B for two optional strings.
OrElse(a, b) == IF IsDefined(a) /\ The(a) # <<>> THEN a ELSE b

\* The user acts on the page at most this many times.
MaxEvents == 3

\* At most this many files are being read at a time.
MaxUploads == 2

\* Forty digits that end in the two decimal digits of n.
NumberedHash(n) ==
    [i \in 1..HASH_LEN |->
        IF i = HASH_LEN - 1 THEN 48 + (n \div 10)
        ELSE IF i = HASH_LEN THEN 48 + (n % 10)
        ELSE 48]

\* A history of HISTORY_LIMIT records, as earlier visits left it.
FullHistory ==
    [n \in 1..HISTORY_LIMIT |->
        MagnetRecord(MAGNET \o <<63>> \o PARAM_xt \o <<61>> \o URN_BTIH
                         \o NumberedHash(n),
                     SOURCE_input, UNNAMED, NumberedHash(n))]

\* An item that is no JSON: '{'
CorruptText == [text |-> <<123>>]

\* What the item holds when the page is opened: nothing, no JSON, a history.
InitialStorage == {Undefined, Some(CorruptText), saveHistory(FullHistory)}

\* The texts typed: no InfoHash, an InfoHash in upper case, and the InfoHash
\* of the last record of FullHistory.
AppTexts == {<<120>>, ToUpperCase(LowerHash), NumberedHash(HISTORY_LIMIT)}

\* The names typed: none, and n"\
AppNames == {<<>>, <<110, 34, 92>>}

\* A single-file torrent with the name given.
TorrentNamed(name) ==
    encodeBencode(Dict(<<[key |-> KEY_info,
                         val |-> Dict(<<[key |-> KEY_length, val |-> Num(3)],
                                        [key |-> KEY_name, val |-> Bytes(name)]>>)]>>))

\* The files dropped: two torrents (named a"\ and b), a .torrent file that is
\* empty, and a torrent whose file name does not end in .torrent.
AppFiles ==
    {[name |-> <<97, 46, 116, 111, 114, 114, 101, 110, 116>>, content |-> TorrentNamed(<<97, 34, 92>>)],
     [name |-> <<98, 46, 116, 111, 114, 114, 101, 110, 116>>, content |-> TorrentNamed(<<98>>)],
     [name |-> <<99, 46, 116, 111, 114, 114, 101, 110, 116>>, content |-> <<>>],
     [name |-> <<97, 46, 116, 120, 116>>, content |-> TorrentNamed(<<97, 34, 92>>)]}

\* The variables the application does not use or never sets.
restVars == <<data, value, result, bytes, torrent, reparsed, loopVars,
              addTrackers, customTrackers>>

\* The page is loaded: useState(storageUtils.loadHistory()), the fields
\* empty, nothing being read, and the effect of the first render due.
Mounted(item) ==
    /\ history' = loadHistory(item)
    /\ effect' = TRUE
    /\ magnetLink' = <<>>
    /\ currentInfoHash' = <<>>
    /\ input' = <<>>
    /\ customName' = <<>>
    /\ error' = Undefined
    /\ isSubmitting' = FALSE
    /\ uploadError' = Undefined
    /\ isLoading' = FALSE
    /\ uploads' = {}

Init ==
    /\ pc = "mounted"
    /\ storage \in InitialStorage
    /\ history = loadHistory(storage)
    /\ effect = TRUE
    /\ magnetLink = <<>>
    /\ currentInfoHash = <<>>
    /\ input = <<>>
    /\ customName = <<>>
    /\ error = Undefined
    /\ isSubmitting = FALSE
    /\ uploadError = Undefined
    /\ isLoading = FALSE
    /\ uploads = {}
    /\ events = 0
    /\ addTrackers = FALSE
    /\ customTrackers = <<>>
    /\ data = NONE /\ value = NONE /\ result = NONE /\ bytes = NONE
    /\ torrent = NONE /\ reparsed = NONE
    /\ NoLoop

\* The user can act: the page is rendered and the bound is not reached.
UserActs == ~effect /\ events < MaxEvents /\ events' = events + 1

\* InfoHashInput.handleInputChange
HandleInputChange ==
    /\ UserActs
    /\ \E text \in AppTexts : input' = text
    /\ error' = Undefined
    /\ pc' = "typed"
    /\ UNCHANGED <<restVars, customName, magnetLink, history, effect, storage,
                   currentInfoHash, isSubmitting, uploadError, isLoading, uploads>>

\* InfoHashInput.handleNameChange
HandleNameChange ==
    /\ UserActs
    /\ \E name \in AppNames : customName' = name
    /\ pc' = "named"
    /\ UNCHANGED <<restVars, input, magnetLink, history, effect, storage,
                   currentInfoHash, error, isSubmitting, uploadError, isLoading,
                   uploads>>

\* handleSubmit's catch and finally: the message is shown and nothing else
\* is set.
SubmitFailed(message) ==
    /\ error' = Some(message)
    /\ isSubmitting' = FALSE
    /\ pc' = "submitFailed"
    /\ UNCHANGED <<input, customName, magnetLink, history, effect, storage,
                   currentInfoHash>>

\* handleSubmit from generateMagnetLink on.
SubmitParsed(parsed) ==
    \E link \in {generateMagnetLink(parsed,
                                    IF customName # <<>> THEN Some(customName)
                                    ELSE Undefined,
                                    addTrackers, Some(SelectedTrackers))} :
        IF ~link.ok THEN SubmitFailed(link.error)
        ELSE /\ handleMagnetGenerated(history, link.link, SOURCE_input,
                                      parsed.infoHash,
                                      OrElse(Some(customName), parsed.name))
             /\ input' = <<>>
             /\ customName' = <<>>
             /\ error' = Undefined
             /\ isSubmitting' = FALSE
             /\ pc' = "submitted"

\* InfoHashInput.handleSubmit
HandleSubmit ==
    /\ UserActs
    /\ IF Trim(input) = <<>>
       THEN /\ error' = Some("Please enter InfoHash or magnet link")
            /\ pc' = "submitRefused"
            /\ UNCHANGED <<input, customName, magnetLink, history, effect,
                           storage, currentInfoHash, isSubmitting>>
       ELSE \E parsed \in {parseInput(Trim(input))} :
                IF ~parsed.ok THEN SubmitFailed(parsed.error)
                ELSE SubmitParsed(parsed)
    /\ UNCHANGED <<restVars, uploadError, isLoading, uploads>>

\* TorrentUploader.processTorrentFile up to await parseTorrentFile(file).
\* What is awaited goes on with the history of this render.
ProcessTorrentFile ==
    /\ UserActs
    /\ Cardinality(uploads) < MaxUploads
    /\ \E file \in AppFiles :
          IF ~EndsWith(file.name, TORRENT_SUFFIX)
          THEN /\ uploadError' = Some("Please upload a .torrent file")
               /\ pc' = "uploadRefused"
               /\ UNCHANGED <<isLoading, uploads>>
          ELSE /\ isLoading' = TRUE
               /\ uploadError' = Undefined
               /\ uploads' = uploads \cup {[file |-> file, history |-> history]}
               /\ pc' = "uploading"
    /\ UNCHANGED <<restVars, input, customName, magnetLink, history, effect,
                   storage, currentInfoHash, error, isSubmitting>>

\* A variant of the catch that also takes the link shown away.
UploadFailed_HidesLink(message) ==
    /\ uploadError' = Some(message)
    /\ magnetLink' = <<>>
    /\ pc' = "uploadFailed"
    /\ UNCHANGED <<history, effect, storage, currentInfoHash>>

\* processTorrentFile's catch: the message is shown and nothing else is set.
UploadFailed(message) ==
    /\ uploadError' = Some(message)
    /\ pc' = "uploadFailed"
    /\ UNCHANGED <<magnetLink, history, effect, storage, currentInfoHash>>

\* processTorrentFile from the await on, when parseTorrentFile resolved.
UploadParsed(upload, torrentInfo) ==
    \E link \in {generateMagnetLink(torrentInfo, Undefined, addTrackers,
                                    Some(SelectedTrackers))} :
        IF ~link.ok THEN UploadFailed(link.error)
        ELSE /\ handleMagnetGenerated(upload.history, link.link, SOURCE_file,
                                      torrentInfo.infoHash, torrentInfo.name)
             /\ pc' = "uploaded"
             /\ UNCHANGED uploadError

\* TorrentUploader.processTorrentFile from the await on.  The FileReader
\* reads the file or fails to.
ProcessTorrentFileResumed ==
    /\ \E upload \in uploads :
          /\ \E read \in {parseBencodeBuffer(upload.file.content),
                          Throw("Error reading file")} :
                IF ~read.ok THEN UploadFailed(read.error)
                ELSE UploadParsed(upload, read)
          /\ uploads' = uploads \ {upload}
    /\ isLoading' = FALSE
    /\ UNCHANGED <<restVars, input, customName, error, isSubmitting, events>>

\* App.handleHistorySelect, for the first or the last record of the list.
HandleHistorySelect ==
    /\ UserActs
    /\ history # <<>>
    /\ \E i \in {1, Len(history)} :
          /\ magnetLink' = history[i].magnetLink
          /\ currentInfoHash' = history[i].infoHash
    /\ pc' = "selected"
    /\ UNCHANGED <<restVars, input, customName, history, effect, storage, error,
                   isSubmitting, uploadError, isLoading, uploads>>

\* HistoryList's onClear: setHistory([]).  The button is disabled while the
\* history is empty.
OnClear ==
    /\ UserActs
    /\ history # <<>>
    /\ history' = <<>>
    /\ effect' = TRUE
    /\ pc' = "cleared"
    /\ UNCHANGED <<restVars, input, customName, magnetLink, storage,
                   currentInfoHash, error, isSubmitting, uploadError, isLoading,
                   uploads>>

\* useEffect(() => storageUtils.saveHistory(history), [history]) after the
\* render that follows setHistory.
Render ==
    /\ effect
    /\ storage' = saveHistory(history)
    /\ effect' = FALSE
    /\ pc' = "rendered"
    /\ UNCHANGED <<restVars, input, customName, magnetLink, history,
                   currentInfoHash, error, isSubmitting, uploadError, isLoading,
                   uploads, events>>

\* The page is loaded again: what was being read is gone.
Reload ==
    /\ events < MaxEvents
    /\ events' = events + 1
    /\ Mounted(storage)
    /\ pc' = "mounted"
    /\ UNCHANGED <<restVars, storage>>

Next ==
    \/ HandleInputChange
    \/ HandleNameChange
    \/ HandleSubmit
    \/ ProcessTorrentFile
    \/ ProcessTorrentFileResumed
    \/ HandleHistorySelect
    \/ OnClear
    \/ Render
    \/ Reload

Spec == Init /\ [][Next]_vars


\* ---------------------------------------------------------------------
\* The application with its scheduling: React runs the effect of a render
\* before the browser handles the next event, so a pending saveHistory is
\* always carried out.
SpecFair == Spec /\ WF_vars(Render)

\* The infoHash of every record of a history, in order.
HistoryHashes(h) == [i \in 1..Len(h) |-> h[i].infoHash]

\* C22: after any change of the history the stored history eventually
\* equals the history in memory, and a reload of the page restores exactly
\* the history last shown.
C22_HistoryPersisted ==
    /\ effect ~> (loadHistory(storage) = history)
    /\ [][(pc' = "mounted" /\ ~effect) => history' = history]_vars

C22_Witness ==
    /\ pc = "mounted"
    /\ events > 0
    /\ history # <<>>
    /\ Len(history) < HISTORY_LIMIT
    /\ \E i \in 1..Len(history) : \E k \in 1..Len(history[i].name) : history[i].name[k] = 34


C29_OverlappingUploadsBothRecorded ==
    [][(pc' = "uploaded" /\ Len(history) < HISTORY_LIMIT) =>
          \A i \in 1..Len(history) :
              history[i].source = SOURCE_file =>
                  \E j \in 1..Len(history') :
                      history'[j].infoHash = history[i].infoHash]_vars

\* handleSubmit ends, and the text does not parse.
SubmitOfUnparsedText ==
    /\ pc' \in {"submitted", "submitFailed", "submitRefused"}
    /\ ~parseInput(Trim(input)).ok

\* processTorrentFile ends, and the file was not read or does not parse.
UploadOfUnparsedFile ==
    /\ pc' \in {"uploaded", "uploadFailed"}
    /\ \/ pc' = "uploadFailed"
       \/ \E upload \in uploads \ uploads' :
              ~parseBencodeBuffer(upload.file.content).ok

\* C30: when the text or the file does not parse, the history, what is
\* stored, the link shown and the current infoHash stay as they are, a
\* message is set and the busy flag is off again.
C30_FailedParseChangesNothing ==
    /\ [][SubmitOfUnparsedText =>
              /\ UNCHANGED <<history, storage, magnetLink, currentInfoHash>>
              /\ IsDefined(error')
              /\ ~isSubmitting']_vars
    /\ [][UploadOfUnparsedFile =>
              /\ UNCHANGED <<history, storage, magnetLink, currentInfoHash>>
              /\ IsDefined(uploadError')
              /\ ~isLoading']_vars

\* A file that does not parse, uploaded while an earlier link is shown.
C30_Witness ==
    /\ pc = "uploadFailed"
    /\ magnetLink # <<>>
    /\ history # <<>>
    /\ IsDefined(uploadError)
    /\ ~isLoading

=============================================================================
